---------------------------- MODULE Spec2Model ----------------------------
(***************************************************************************)
(* The Market Scoring Engine of polylitics-next: lib/polymarket/deadline,  *)
(* model and advanced-scoring.                                             *)
(*                                                                         *)
(* Every function of the engine is pure, so the state of the model is one  *)
(* call frame: the function called (fn), its arguments (args), the        *)
(* ambient clock the call reads (clock), the value it returned (ret) and   *)
(* the position of the caller (pc).  Each specification draws the arguments of one function in *)
(* its initial states and has one action, which applies the function.      *)
(*                                                                         *)
(* Numbers.  The program computes in IEEE doubles; the model computes in   *)
(* exact rationals [n |-> numerator, d |-> denominator], normalised so     *)
(* that equal numbers are equal records.  Math.sqrt is exact on squares of *)
(* rationals and rounded down to 1/SqrtPrecision elsewhere.  NaN and the   *)
(* infinities are not represented: every input set below holds finite     *)
(* numbers only.                                                           *)
(*                                                                         *)
(* Time.  A Date is a rational number of hours; the program's division of  *)
(* a millisecond difference by 1000*60*60*24 is the division of an hour    *)
(* difference by HoursPerDay.                                              *)
(***************************************************************************)
EXTENDS Integers, Sequences, FiniteSets, TLC

VARIABLES fn, pc, args, ret, clock

vars == <<fn, pc, args, ret, clock>>

(***************************************************************************)
(* Bounds of the input sets.                                               *)
(***************************************************************************)
PriceSteps == 20        \* probabilities are the multiples of 1/PriceSteps
MaxDays == 181          \* furthest end date, in days from the clock
MaxHistory == 4         \* longest volume history given to volumeSpikeScore
MaxSignals == 2         \* longest signal list given to calculateCompositeScore
MaxSnapshots == 22      \* longest list of snapshots given to scoreMarketAdvanced
MaxSkew == 1            \* hours the clock may advance between two reads of one call
SqrtPrecision == 10     \* resolution of Math.sqrt on non-squares

HoursPerDay == 24

(***************************************************************************)
(* null / undefined                                                        *)
(***************************************************************************)
NULL == [null |-> TRUE]

(***************************************************************************)
(* Rational arithmetic                                                     *)
(***************************************************************************)
Abs(i) == IF i < 0 THEN -i ELSE i

RECURSIVE GCD(_, _)
GCD(a, b) == IF b = 0 THEN a ELSE GCD(b, a % b)

R(n, d) ==
  LET g == GCD(Abs(n), Abs(d))
      s == IF d < 0 THEN -1 ELSE 1
  IN  [n |-> (s * n) \div g, d |-> (s * d) \div g]

Zero == R(0, 1)
One == R(1, 1)

\* sums and comparisons are taken over the least common denominator
RAdd(a, b) ==
  LET g == GCD(a.d, b.d)
  IN  R(a.n * (b.d \div g) + b.n * (a.d \div g), (a.d \div g) * b.d)
RSub(a, b) == RAdd(a, [n |-> -b.n, d |-> b.d])
RMul(a, b) ==
  LET g1 == GCD(Abs(a.n), b.d)
      g2 == GCD(Abs(b.n), a.d)
  IN  R((a.n \div g1) * (b.n \div g2), (a.d \div g2) * (b.d \div g1))
RDiv(a, b) == RMul(a, [n |-> IF b.n < 0 THEN -b.d ELSE b.d, d |-> Abs(b.n)])
RLt(a, b) == LET g == GCD(a.d, b.d) IN a.n * (b.d \div g) < b.n * (a.d \div g)
RLe(a, b) == LET g == GCD(a.d, b.d) IN a.n * (b.d \div g) <= b.n * (a.d \div g)
RGt(a, b) == RLt(b, a)
RGe(a, b) == RLe(b, a)
RAbs(a) == [n |-> Abs(a.n), d |-> a.d]
RMin(a, b) == IF RLt(b, a) THEN b ELSE a
RMax(a, b) == IF RGt(b, a) THEN b ELSE a

RECURSIVE ISqrtIn(_, _, _)
ISqrtIn(x, lo, hi) ==
  IF lo >= hi THEN lo
  ELSE LET mid == (lo + hi + 1) \div 2
       IN  IF mid * mid <= x THEN ISqrtIn(x, mid, hi) ELSE ISqrtIn(x, lo, mid - 1)

ISqrt(x) == ISqrtIn(x, 0, IF x < 46340 THEN x ELSE 46340)

\* a normalised rational is a square exactly when both of its parts are
RSqrt(a) ==
  LET sn == ISqrt(a.n)
      sd == ISqrt(a.d)
  IN  IF sn * sn = a.n /\ sd * sd = a.d THEN R(sn, sd)
      ELSE R(ISqrt((a.n * SqrtPrecision * SqrtPrecision) \div a.d), SqrtPrecision)

\* the sum of a sequence, taken by halves: exact sums do not depend on the
\* order of the additions
RECURSIVE RSum(_)
RSum(s) ==
  IF Len(s) = 0 THEN Zero
  ELSE IF Len(s) = 1 THEN s[1]
  ELSE RAdd(RSum(SubSeq(s, 1, Len(s) \div 2)),
            RSum(SubSeq(s, (Len(s) \div 2) + 1, Len(s))))

\* x ?? dflt
OrElse(x, dflt) == IF x = NULL THEN dflt ELSE x

\* a string held where null may stand instead
Str(s) == [text |-> s]

(***************************************************************************)
(* Strings: a string of the program is the sequence of its characters      *)
(***************************************************************************)
Chars(str) == [i \in 1..Len(str) |-> SubSeq(str, i, i)]

UpperCase == Chars("ABCDEFGHIJKLMNOPQRSTUVWXYZ")
LowerCase == Chars("abcdefghijklmnopqrstuvwxyz")
Digits == {"0", "1", "2", "3", "4", "5", "6", "7", "8", "9"}
LowerLetters == {LowerCase[i] : i \in 1..Len(LowerCase)}

UpperLetters == {UpperCase[i] : i \in 1..Len(UpperCase)}
LowerOfUpper ==
  [u \in UpperLetters |-> LowerCase[CHOOSE i \in 1..Len(UpperCase) : UpperCase[i] = u]]

LowerChar(c) == IF c \in UpperLetters THEN LowerOfUpper[c] ELSE c

ToLowerCase(s) == [i \in 1..Len(s) |-> LowerChar(s[i])]

\* the literal lit stands in s at position i
LitAt(s, i, lit) ==
  /\ i >= 1
  /\ i + Len(lit) - 1 <= Len(s)
  /\ \A j \in 1..Len(lit) : s[i + j - 1] = lit[j]

\* s.includes(sub), and a regular expression that is one literal
Includes(s, sub) == \E i \in 1..(Len(s) - Len(sub) + 1) : LitAt(s, i, sub)

(***************************************************************************)
(* deadline: looksLikeByDateMarket                                         *)
(***************************************************************************)
CharAt(s, i) == IF 1 <= i /\ i <= Len(s) THEN s[i] ELSE ""

IsDigit(c) == c \in Digits

IsLowerLetter(c) == c \in LowerLetters

\* \d{k} stands in s at position i
DigitsAt(s, i, k) == \A j \in i..(i + k - 1) : IsDigit(CharAt(s, j))

LitBy == Chars(" by ")
LitBefore == Chars(" before ")
LitByEndOf == Chars(" by end of ")
LitThisYear == Chars(" this year")
LitThisMonth == Chars(" this month")
LitThisWeek == Chars(" this week")
LitDeadline == Chars("deadline")

\* / by \d{4}/
ByYear(s) == \E i \in 1..Len(s) : LitAt(s, i, LitBy) /\ DigitsAt(s, i + 4, 4)

\* / before \d{1,2}\/\d{1,2}/
BeforeSlashDate(s) ==
  \E i \in 1..Len(s) :
    /\ LitAt(s, i, LitBefore)
    /\ \E m \in 1..2 :
         /\ DigitsAt(s, i + 8, m)
         /\ CharAt(s, i + 8 + m) = "/"
         /\ IsDigit(CharAt(s, i + 9 + m))

\* / by [a-z]+ \d{1,2}/
ByMonthDay(s) ==
  \E i \in 1..Len(s) :
    /\ LitAt(s, i, LitBy)
    /\ \E k \in 1..Len(s) :
         /\ \A j \in (i + 4)..(i + 3 + k) : IsLowerLetter(CharAt(s, j))
         /\ CharAt(s, i + 4 + k) = " "
         /\ IsDigit(CharAt(s, i + 5 + k))

\* /\d{4}$/
EndsWithYear(s) == Len(s) >= 4 /\ DigitsAt(s, Len(s) - 3, 4)

looksLikeByDateMarket(title, rules, description) ==
  LET text == ToLowerCase(title \o <<" ">> \o OrElse(rules, Str(<<>>)).text
                                \o <<" ">> \o OrElse(description, Str(<<>>)).text)
  IN  \/ Includes(text, LitBy)
      \/ Includes(text, LitBefore)
      \/ Includes(text, LitByEndOf)
      \/ Includes(text, LitThisYear)
      \/ Includes(text, LitThisMonth)
      \/ Includes(text, LitThisWeek)
      \/ ByYear(text)
      \/ BeforeSlashDate(text)
      \/ ByMonthDay(text)
      \/ Includes(text, LitDeadline)
      \/ EndsWithYear(text)

(***************************************************************************)
(* deadline: extractDeadline                                               *)
(*                                                                         *)
(* A Date is the number of hours from the clock's origin to it, or         *)
(* InvalidDate, the Date whose time value is NaN.  new Date(text) is the   *)
(* legacy parser of the runtime on the three shapes the patterns capture.  *)
(***************************************************************************)
InvalidDate == [invalid |-> TRUE]

\* the local calendar date and time at hour 0 of the clock
Epoch == [year |-> 2026, month |-> 1, day |-> 1]

DigitChars == Chars("0123456789")

\* \w
IsWordChar(c) == c \in LowerLetters \/ c \in UpperLetters \/ c \in Digits \/ c = "_"

\* the length of the run of \w characters of s from position i
RECURSIVE WordRun(_, _)
WordRun(s, i) == IF IsWordChar(CharAt(s, i)) THEN 1 + WordRun(s, i + 1) ELSE 0

\* the number written by the k digits of s from position i
RECURSIVE ToNumber(_, _, _)
ToNumber(s, i, k) ==
  IF k = 0 THEN 0
  ELSE 10 * ToNumber(s, i, k - 1)
         + ((CHOOSE j \in 1..10 : DigitChars[j] = s[i + k - 1]) - 1)

\* days from 1 January of year 1 to 1 January of year y
DaysBeforeYear(y) ==
  365 * (y - 1) + ((y - 1) \div 4) - ((y - 1) \div 100) + ((y - 1) \div 400)

\* days from 1 January of year y to the first of month m
DaysBeforeMonth(y, m) ==
  LET leap == (y % 4 = 0 /\ y % 100 # 0) \/ y % 400 = 0
      lengths == <<31, IF leap THEN 29 ELSE 28, 31, 30, 31, 30, 31, 31, 30, 31, 30, 31>>
  IN  IF m = 1 THEN 0
      ELSE LET upTo[k \in 1..(m - 1)] ==
                 IF k = 1 THEN lengths[1] ELSE upTo[k - 1] + lengths[k]
           IN  upTo[m - 1]

\* new Date(y, m - 1, d): local midnight of the day; a day past the end of
\* the month runs on into the next
DateOf(y, m, d) ==
  R(HoursPerDay * ((DaysBeforeYear(y) + DaysBeforeMonth(y, m) + d)
                   - (DaysBeforeYear(Epoch.year) + DaysBeforeMonth(Epoch.year, Epoch.month)
                        + Epoch.day)),
    1)

\* the month names, known by their first three letters
MonthPrefixes ==
  <<Chars("jan"), Chars("feb"), Chars("mar"), Chars("apr"), Chars("may"), Chars("jun"),
    Chars("jul"), Chars("aug"), Chars("sep"), Chars("oct"), Chars("nov"), Chars("dec")>>

\* the month a word names, or 0
MonthOf(word) ==
  LET w == ToLowerCase(word)
      named == {m \in 1..12 : Len(w) >= 3 /\ SubSeq(w, 1, 3) = MonthPrefixes[m]
                                /\ \A j \in 1..Len(w) : IsLowerLetter(w[j])}
  IN  IF named = {} THEN 0 ELSE CHOOSE m \in named : TRUE

\* the Date of a month, a day and a year as the parser read them
ParsedDate(month, day, year) ==
  IF month < 1 \/ month > 12 \/ day < 1 \/ day > 31 THEN InvalidDate
  ELSE DateOf(IF year <= 49 THEN year + 2000 ELSE IF year <= 99 THEN year + 1900 ELSE year,
              month, day)

\* (\w+ \d{1,2}, \d{4}) at position i of s: the Date of the captured text,
\* or NULL where the group does not match
WordDayYearAt(s, i) ==
  LET w == WordRun(s, i)
      ds == {k \in 1..2 : /\ DigitsAt(s, i + w + 1, k)
                           /\ CharAt(s, i + w + 1 + k) = ","
                           /\ CharAt(s, i + w + 2 + k) = " "
                           /\ DigitsAt(s, i + w + 3 + k, 4)}
  IN  IF w = 0 \/ CharAt(s, i + w) # " " \/ ds = {} THEN NULL
      ELSE LET k == CHOOSE k \in ds : TRUE
           IN  ParsedDate(MonthOf(SubSeq(s, i, i + w - 1)),
                          ToNumber(s, i + w + 1, k),
                          ToNumber(s, i + w + 3 + k, 4))

\* (\w+ \d{4}) at position i of s
WordYearAt(s, i) ==
  LET w == WordRun(s, i)
  IN  IF w = 0 \/ CharAt(s, i + w) # " " \/ ~DigitsAt(s, i + w + 1, 4) THEN NULL
      ELSE ParsedDate(MonthOf(SubSeq(s, i, i + w - 1)), 1, ToNumber(s, i + w + 1, 4))

\* (\d{1,2}\/\d{1,2}\/\d{4}) at position i of s
SlashDateAt(s, i) ==
  LET ms == {m \in 1..2 : DigitsAt(s, i, m) /\ CharAt(s, i + m) = "/"}
  IN  IF ms = {} THEN NULL
      ELSE LET m == CHOOSE m \in ms : TRUE
               ds == {d \in 1..2 : /\ DigitsAt(s, i + m + 1, d)
                                    /\ CharAt(s, i + m + 1 + d) = "/"
                                    /\ DigitsAt(s, i + m + 2 + d, 4)}
           IN  IF ds = {} THEN NULL
               ELSE LET d == CHOOSE d \in ds : TRUE
                    IN  ParsedDate(ToNumber(s, i, m), ToNumber(s, i + m + 1, d),
                                   ToNumber(s, i + m + 2 + d, 4))

\* text.match(pattern): the leftmost of the positions where the pattern
\* matches, or 0
FirstMatch(hits) == IF hits = {} THEN 0 ELSE CHOOSE i \in hits : \A j \in hits : i <= j

\* new Date().getFullYear()
FullYear(now) ==
  CHOOSE y \in Epoch.year..(Epoch.year + 1) :
    /\ RLe(DateOf(y, 1, 1), now)
    /\ y = Epoch.year + 1 \/ RLt(now, DateOf(y + 1, 1, 1))

LitByWord == Chars("by ")
LitBeforeWord == Chars("before ")
LitByEndOfWord == Chars("by end of ")
LitThisYearWord == Chars("this year")

\* The Date constructor does not throw on text it cannot parse, so the
\* catch clause is never entered: the first pattern that matches decides.
extractDeadline(a, now) ==
  IF a.endDate # NULL THEN a.endDate
  ELSE
  LET text == a.title \o <<" ">> \o OrElse(a.rules, Str(<<>>)).text
      lower == ToLowerCase(text)
      ByAt(i) == LitAt(lower, i, LitByWord) /\ WordDayYearAt(text, i + 3) # NULL
      BeforeAt(i) == LitAt(lower, i, LitBeforeWord) /\ WordDayYearAt(text, i + 7) # NULL
      SlashAt(i) == SlashDateAt(text, i) # NULL
      ByEndOfAt(i) == LitAt(lower, i, LitByEndOfWord) /\ WordYearAt(text, i + 10) # NULL
      ThisYearAt(i) == LitAt(lower, i, LitThisYearWord)
      by == FirstMatch({i \in 1..Len(text) : ByAt(i)})
      before == FirstMatch({i \in 1..Len(text) : BeforeAt(i)})
      slash == FirstMatch({i \in 1..Len(text) : SlashAt(i)})
      byEndOf == FirstMatch({i \in 1..Len(text) : ByEndOfAt(i)})
      thisYear == FirstMatch({i \in 1..Len(text) : ThisYearAt(i)})
  IN  IF by > 0 THEN WordDayYearAt(text, by + 3)
      ELSE IF before > 0 THEN WordDayYearAt(text, before + 7)
      ELSE IF slash > 0 THEN SlashDateAt(text, slash)
      ELSE IF byEndOf > 0 THEN WordYearAt(text, byEndOf + 10)
      ELSE IF thisYear > 0
        THEN IF LitAt(text, thisYear, LitThisYearWord) THEN DateOf(FullYear(now), 12, 31)
             ELSE InvalidDate
      ELSE NULL

(***************************************************************************)
(* deadline: timeRemainingDays, deadlineUrgency                            *)
(***************************************************************************)
\* On an invalid Date, getTime() is NaN and NaN > 0 is false.
timeRemainingDays(endDate, now) ==
  IF endDate = NULL THEN NULL
  ELSE IF endDate = InvalidDate THEN Zero
  ELSE LET ms == RSub(endDate, now)
       IN  IF RGt(ms, Zero) THEN RDiv(ms, R(HoursPerDay, 1)) ELSE Zero

deadlineUrgency(days) ==
  IF days = NULL THEN "unknown"
  ELSE IF RLt(days, R(7, 1)) THEN "critical"
  ELSE IF RLt(days, R(30, 1)) THEN "urgent"
  ELSE IF RLt(days, R(90, 1)) THEN "moderate"
  ELSE "distant"

(***************************************************************************)
(* model: clamp01, deadlineDelayModel                                      *)
(***************************************************************************)
\* variant: the upper bound is not applied
clamp01_floorOnly(n) == RMax(Zero, n)

clamp01(n) == RMax(Zero, RMin(One, n))

\* variant: the penalties of the two nearest buckets are exchanged
TimePenalty_swapped(days) ==
  IF RLt(days, R(7, 1))
    THEN <<R(18, 100), R(9, 10), "< 7 days: Very high delay risk for unfinished items.">>
  ELSE IF RLt(days, R(30, 1))
    THEN <<R(25, 100), R(85, 100), "< 30 days: High delay risk; insufficient buffer.">>
  ELSE IF RLt(days, R(90, 1))
    THEN <<R(10, 100), R(75, 100), "< 90 days: Moderate delay risk.">>
  ELSE IF RLt(days, R(180, 1))
    THEN <<R(4, 100), R(65, 100), "< 6 months: Light delay risk.">>
  ELSE <<R(2, 100), R(5, 10), "> 6 months: Minimal delay risk from timeline.">>

\* the time bucket: <<penalty, confidence, rationale>>
TimePenalty(days) ==
  IF RLt(days, R(7, 1))
    THEN <<R(25, 100), R(9, 10), "< 7 days: Very high delay risk for unfinished items.">>
  ELSE IF RLt(days, R(30, 1))
    THEN <<R(18, 100), R(85, 100), "< 30 days: High delay risk; insufficient buffer.">>
  ELSE IF RLt(days, R(90, 1))
    THEN <<R(10, 100), R(75, 100), "< 90 days: Moderate delay risk.">>
  ELSE IF RLt(days, R(180, 1))
    THEN <<R(4, 100), R(65, 100), "< 6 months: Light delay risk.">>
  ELSE <<R(2, 100), R(5, 10), "> 6 months: Minimal delay risk from timeline.">>

\* the liquidity adjustment: <<penalty, confidence factor, rationale>>
LiquidityPenalty(liquidity) ==
  LET liq == OrElse(liquidity, Zero)
  IN  IF RLt(liq, R(5000, 1))
        THEN <<R(8, 100), R(9, 10), "Low liquidity: Price may be noisy/optimistic.">>
      ELSE IF RLt(liq, R(20000, 1))
        THEN <<R(4, 100), R(95, 100), "Medium liquidity: Some noise expected.">>
      ELSE <<Zero, One, "High liquidity: Price likely more accurate.">>

LitCrypto == Chars("crypto")
LitProtocol == Chars("protocol")
LitRegulation == Chars("regulation")
LitLegal == Chars("legal")
LitPolitics == Chars("politics")

\* variant: every bucket the category matches adds its penalty
CategoryPenalty_cumulative(category) ==
  LET cat == ToLowerCase(OrElse(category, Str(<<>>)).text)
      crypto == IF Includes(cat, LitCrypto) \/ Includes(cat, LitProtocol)
                THEN <<R(5, 100), <<"Crypto/protocol: Historical delays common.">> >>
                ELSE <<Zero, <<>> >>
      legal == IF Includes(cat, LitRegulation) \/ Includes(cat, LitLegal)
               THEN <<R(8, 100), <<"Regulatory/legal: Procedural delays expected.">> >>
               ELSE <<Zero, <<>> >>
      politics == IF Includes(cat, LitPolitics)
                  THEN <<R(3, 100), <<"Politics: Moderate unpredictability.">> >>
                  ELSE <<Zero, <<>> >>
  IN  <<RAdd(RAdd(crypto[1], legal[1]), politics[1]), crypto[2] \o legal[2] \o politics[2]>>

\* the category adjustment: <<penalty, rationale lines>>
CategoryPenalty(category) ==
  LET cat == ToLowerCase(OrElse(category, Str(<<>>)).text)
  IN  IF Includes(cat, LitCrypto) \/ Includes(cat, LitProtocol)
        THEN <<R(5, 100), <<"Crypto/protocol: Historical delays common.">> >>
      ELSE IF Includes(cat, LitRegulation) \/ Includes(cat, LitLegal)
        THEN <<R(8, 100), <<"Regulatory/legal: Procedural delays expected.">> >>
      ELSE IF Includes(cat, LitPolitics)
        THEN <<R(3, 100), <<"Politics: Moderate unpredictability.">> >>
      ELSE <<Zero, <<>> >>

\* variant: the category adjustment is assigned, not added
DelayPenalty_assigned(time, liquidity, category) ==
  IF RGt(category[1], Zero) THEN category[1] ELSE RAdd(time[1], liquidity[1])

\* delayPenalty once the three adjustments have been added to it
DelayPenalty(time, liquidity, category) == RAdd(RAdd(time[1], liquidity[1]), category[1])

\* variant: the liquidity and category adjustments are made before the test
\* for a missing end date, and are kept on that branch
deadlineDelayModel_penalisedUndated(a, now) ==
  LET days == timeRemainingDays(a.endDate, now)
      marketProb == clamp01(a.marketProb)
      l == LiquidityPenalty(a.liquidity)
      c == CategoryPenalty(a.category)
  IN  IF days = NULL
      THEN [modelProb |-> clamp01(RSub(marketProb, RAdd(l[1], c[1]))),
            delayRisk |-> clamp01(RDiv(RAdd(l[1], c[1]), R(30, 100))),
            confidence |-> R(3, 10),
            rationale |-> <<"No deadline available; cannot assess delay risk.">>]
      ELSE LET t == TimePenalty(days)
               delayPenalty == DelayPenalty(t, l, c)
           IN  [modelProb |-> clamp01(RSub(marketProb, delayPenalty)),
                delayRisk |-> clamp01(RDiv(delayPenalty, R(30, 100))),
                confidence |-> RMul(t[2], l[2]),
                rationale |-> <<t[3], l[3]>> \o c[2]]

\* variant: delayRisk is taken from the time bucket alone, before the
\* liquidity and category adjustments are added
deadlineDelayModel_timeRisk(a, now) ==
  LET days == timeRemainingDays(a.endDate, now)
      marketProb == clamp01(a.marketProb)
  IN  IF days = NULL
      THEN [modelProb |-> marketProb,
            delayRisk |-> Zero,
            confidence |-> R(3, 10),
            rationale |-> <<"No deadline available; cannot assess delay risk.">>]
      ELSE LET t == TimePenalty(days)
               l == LiquidityPenalty(a.liquidity)
               c == CategoryPenalty(a.category)
               delayPenalty == DelayPenalty(t, l, c)
           IN  [modelProb |-> clamp01(RSub(marketProb, delayPenalty)),
                delayRisk |-> clamp01(RDiv(t[1], R(30, 100))),
                confidence |-> RMul(t[2], l[2]),
                rationale |-> <<t[3], l[3]>> \o c[2]]

\* variant: the penalty is added to the quoted probability
deadlineDelayModel_raised(a, now) ==
  LET days == timeRemainingDays(a.endDate, now)
      marketProb == clamp01(a.marketProb)
  IN  IF days = NULL
      THEN [modelProb |-> marketProb,
            delayRisk |-> Zero,
            confidence |-> R(3, 10),
            rationale |-> <<"No deadline available; cannot assess delay risk.">>]
      ELSE LET t == TimePenalty(days)
               l == LiquidityPenalty(a.liquidity)
               c == CategoryPenalty(a.category)
               delayPenalty == DelayPenalty(t, l, c)
           IN  [modelProb |-> clamp01(RAdd(marketProb, delayPenalty)),
                delayRisk |-> clamp01(RDiv(delayPenalty, R(30, 100))),
                confidence |-> RMul(t[2], l[2]),
                rationale |-> <<t[3], l[3]>> \o c[2]]

deadlineDelayModel(a, now) ==
  LET days == timeRemainingDays(a.endDate, now)
      marketProb == clamp01(a.marketProb)
  IN  IF days = NULL
      THEN [modelProb |-> marketProb,
            delayRisk |-> Zero,
            confidence |-> R(3, 10),
            rationale |-> <<"No deadline available; cannot assess delay risk.">>]
      ELSE LET t == TimePenalty(days)
               l == LiquidityPenalty(a.liquidity)
               c == CategoryPenalty(a.category)
               delayPenalty == DelayPenalty(t, l, c)
           IN  [modelProb |-> clamp01(RSub(marketProb, delayPenalty)),
                delayRisk |-> clamp01(RDiv(delayPenalty, R(30, 100))),
                confidence |-> RMul(t[2], l[2]),
                rationale |-> <<t[3], l[3]>> \o c[2]]

(***************************************************************************)
(* model: volumeSpikeScore                                                 *)
(***************************************************************************)
\* variant: the history is not filtered
Positive_keepAll(h) == h

\* h.filter(v => v > 0)
Positive(h) == SelectSeq(h, LAMBDA v : RGt(v, Zero))

Mean(h) == RDiv(RSum(h), R(Len(h), 1))

\* sum of (v - mean)^2 over h, divided by h.length
Variance(h, mean) ==
  RDiv(RSum([i \in 1..Len(h) |-> RMul(RSub(h[i], mean), RSub(h[i], mean))]),
       R(Len(h), 1))

\* variant: a deviation counts in either direction
volumeSpikeScore_twoSided(a) ==
  LET current == OrElse(a.volume24h, Zero)
      history == Positive(a.volumeHistory)
  IN  IF Len(history) < 3
      THEN [volumeZScore |-> Zero, isSpike |-> FALSE,
            rationale |-> "Insufficient volume history"]
      ELSE LET mean == Mean(history)
               stdDev == RSqrt(Variance(history, mean))
           IN  IF stdDev = Zero
               THEN [volumeZScore |-> Zero, isSpike |-> FALSE,
                     rationale |-> "No volume variance detected"]
               ELSE LET zScore == RDiv(RSub(current, mean), stdDev)
                        isSpike == RGt(RAbs(zScore), R(2, 1))
                    IN  [volumeZScore |-> zScore, isSpike |-> isSpike,
                         rationale |-> IF isSpike THEN "Current, Mean, Z - SPIKE DETECTED"
                                       ELSE "Current, Mean, Z"]

\* variant: a spike starts above three standard deviations
volumeSpikeScore_highBar(a) ==
  LET current == OrElse(a.volume24h, Zero)
      history == Positive(a.volumeHistory)
  IN  IF Len(history) < 3
      THEN [volumeZScore |-> Zero, isSpike |-> FALSE,
            rationale |-> "Insufficient volume history"]
      ELSE LET mean == Mean(history)
               stdDev == RSqrt(Variance(history, mean))
           IN  IF stdDev = Zero
               THEN [volumeZScore |-> Zero, isSpike |-> FALSE,
                     rationale |-> "No volume variance detected"]
               ELSE LET zScore == RDiv(RSub(current, mean), stdDev)
                        isSpike == RGt(zScore, R(3, 1))
                    IN  [volumeZScore |-> zScore, isSpike |-> isSpike,
                         rationale |-> IF isSpike THEN "Current, Mean, Z - SPIKE DETECTED"
                                       ELSE "Current, Mean, Z"]

volumeSpikeScore(a) ==
  LET current == OrElse(a.volume24h, Zero)
      history == Positive(a.volumeHistory)
  IN  IF Len(history) < 3
      THEN [volumeZScore |-> Zero, isSpike |-> FALSE,
            rationale |-> "Insufficient volume history"]
      ELSE LET mean == Mean(history)
               stdDev == RSqrt(Variance(history, mean))
           IN  IF stdDev = Zero
               THEN [volumeZScore |-> Zero, isSpike |-> FALSE,
                     rationale |-> "No volume variance detected"]
               ELSE LET zScore == RDiv(RSub(current, mean), stdDev)
                        isSpike == RGt(zScore, R(2, 1))
                    IN  [volumeZScore |-> zScore, isSpike |-> isSpike,
                         rationale |-> IF isSpike THEN "Current, Mean, Z - SPIKE DETECTED"
                                       ELSE "Current, Mean, Z"]

(***************************************************************************)
(* model: attentionScore                                                   *)
(***************************************************************************)
attentionScore(a) ==
  LET volume == OrElse(a.volume24h, Zero)
      priceChange == RAbs(OrElse(a.priceChange24h, Zero))
      liquidity == OrElse(a.liquidity, Zero)
      volumeScore == RMul(RMin(RDiv(volume, R(100000, 1)), One), R(4, 10))
      priceScore == RMul(RMin(RDiv(priceChange, R(2, 10)), One), R(4, 10))
      liquidityScore == RMul(RMin(RDiv(liquidity, R(50000, 1)), One), R(2, 10))
  IN  RAdd(RAdd(volumeScore, priceScore), liquidityScore)

(***************************************************************************)
(* advanced-scoring: calculateKelly                                        *)
(***************************************************************************)
\* what IEEE arithmetic yields where no number is defined
NaN == [nan |-> TRUE]

\* variant: the result is not capped at a quarter of the bankroll
calculateKelly_uncapped(a) ==
  LET p == IF a.direction = "YES" THEN a.modelProb ELSE RSub(One, a.modelProb)
      price == IF a.direction = "YES" THEN a.marketPrice ELSE RSub(One, a.marketPrice)
  IN  IF RLe(price, Zero) \/ RGe(price, One) THEN Zero
      ELSE LET b == RDiv(RSub(One, price), price)
               q == RSub(One, p)
               kelly == RDiv(RSub(RMul(b, p), q), b)
           IN  RMax(Zero, kelly)

\* variant: no test of the price.  At price 0, b is Infinity and
\* (b * p - q) / b is NaN; at price 1, b is 0 and (b * p - q) / b is
\* -Infinity, clamped to 0, or NaN when q is 0 too.
calculateKelly_unguarded(a) ==
  LET p == IF a.direction = "YES" THEN a.modelProb ELSE RSub(One, a.modelProb)
      price == IF a.direction = "YES" THEN a.marketPrice ELSE RSub(One, a.marketPrice)
      q == RSub(One, p)
  IN  IF price = Zero THEN NaN
      ELSE IF price = One THEN (IF q = Zero THEN NaN ELSE Zero)
      ELSE LET b == RDiv(RSub(One, price), price)
               kelly == RDiv(RSub(RMul(b, p), q), b)
           IN  RMax(Zero, RMin(R(25, 100), kelly))

\* variant: the odds are taken as price / (1 - price)
calculateKelly_inverseOdds(a) ==
  LET p == IF a.direction = "YES" THEN a.modelProb ELSE RSub(One, a.modelProb)
      price == IF a.direction = "YES" THEN a.marketPrice ELSE RSub(One, a.marketPrice)
  IN  IF RLe(price, Zero) \/ RGe(price, One) THEN Zero
      ELSE LET b == RDiv(price, RSub(One, price))
               q == RSub(One, p)
               kelly == RDiv(RSub(RMul(b, p), q), b)
           IN  RMax(Zero, RMin(R(25, 100), kelly))

\* variant: the chance of losing is not set against the chance of winning
calculateKelly_winOnly(a) ==
  LET p == IF a.direction = "YES" THEN a.modelProb ELSE RSub(One, a.modelProb)
      price == IF a.direction = "YES" THEN a.marketPrice ELSE RSub(One, a.marketPrice)
  IN  IF RLe(price, Zero) \/ RGe(price, One) THEN Zero
      ELSE LET b == RDiv(RSub(One, price), price)
               kelly == RDiv(RMul(b, p), b)
           IN  RMax(Zero, RMin(R(25, 100), kelly))

calculateKelly(a) ==
  LET p == IF a.direction = "YES" THEN a.modelProb ELSE RSub(One, a.modelProb)
      price == IF a.direction = "YES" THEN a.marketPrice ELSE RSub(One, a.marketPrice)
  IN  IF RLe(price, Zero) \/ RGe(price, One) THEN Zero
      ELSE LET b == RDiv(RSub(One, price), price)
               q == RSub(One, p)
               kelly == RDiv(RSub(RMul(b, p), q), b)
           IN  RMax(Zero, RMin(R(25, 100), kelly))

(***************************************************************************)
(* advanced-scoring: detectMomentum, generateSignals                       *)
(***************************************************************************)
\* variant: the strong regime is not confirmed by volume
detectMomentum_noVolume(a) ==
  IF /\ RGt(a.velocity1h, R(2, 100))
     /\ RGt(a.velocity24h, R(3, 100))
    THEN "bullish"
  ELSE IF /\ RLt(a.velocity1h, R(-2, 100))
          /\ RLt(a.velocity24h, R(-3, 100))
    THEN "bearish"
  ELSE IF RGt(a.velocity24h, R(5, 100)) THEN "bullish"
  ELSE IF RLt(a.velocity24h, R(-5, 100)) THEN "bearish"
  ELSE "neutral"

detectMomentum(a) ==
  IF /\ RGt(a.velocity1h, R(2, 100))
     /\ RGt(a.velocity24h, R(3, 100))
     /\ RGt(a.volumeZScore, One)
    THEN "bullish"
  ELSE IF /\ RLt(a.velocity1h, R(-2, 100))
          /\ RLt(a.velocity24h, R(-3, 100))
          /\ RGt(a.volumeZScore, One)
    THEN "bearish"
  ELSE IF RGt(a.velocity24h, R(5, 100)) THEN "bullish"
  ELSE IF RLt(a.velocity24h, R(-5, 100)) THEN "bearish"
  ELSE "neutral"

\* An OpportunitySignal.  Its rationale lines are display text formatted
\* from the same arguments and are not part of the record here.
Signal(type, strength, direction, confidence) ==
  [type |-> type, strength |-> strength, direction |-> direction,
   confidence |-> confidence]

\* strength * confidence, the sort key
SignalWeight(s) == RMul(s.strength, s.confidence)

\* variant: momentum-entry does not wait for a volume spike
PushedSignals_noSpikeGate(a) ==
  (IF a.isByDate /\ RGt(a.delayRisk, R(5, 10)) /\ RLt(a.edge, R(-5, 100))
   THEN << Signal("deadline-overpriced",
                  RMin(One, RMul(RAbs(a.edge), R(5, 1))),
                  "NO",
                  RAdd(R(7, 10), RMul(a.delayRisk, R(2, 10)))) >>
   ELSE <<>>)
  \o
  (IF a.momentum # "neutral" /\ RGt(RAbs(a.velocity24h), R(8, 100))
   THEN << Signal("momentum-entry",
                  RMin(One, RMul(RAbs(a.velocity24h), R(5, 1))),
                  IF a.momentum = "bullish" THEN "YES" ELSE "NO",
                  RAdd(R(6, 10), RMul(a.volumeZScore, R(1, 10)))) >>
   ELSE <<>>)
  \o
  (IF RLt(a.attentionScore, R(3, 10)) /\ RGt(RAbs(a.edge), R(8, 100))
   THEN << Signal("attention-arbitrage",
                  RMul(RAbs(a.edge), R(3, 1)),
                  a.edgeDirection,
                  R(65, 100)) >>
   ELSE <<>>)
  \o
  (IF a.isVolumeSpike /\ RLt(RAbs(a.velocity24h), R(3, 100))
   THEN << Signal("volume-precursor",
                  RDiv(a.volumeZScore, R(4, 1)),
                  "WATCH",
                  R(5, 10)) >>
   ELSE <<>>)
  \o
  (IF RGt(RAbs(a.velocity24h), R(15, 100)) /\ RGt(a.volumeZScore, R(25, 10))
   THEN << Signal("mean-reversion",
                  RMin(One, RMul(RAbs(a.velocity24h), R(3, 1))),
                  IF RGt(a.velocity24h, Zero) THEN "NO" ELSE "YES",
                  R(55, 100)) >>
   ELSE <<>>)

\* variant: volume-precursor does not ask for a still price
PushedSignals_anyVelocity(a) ==
  (IF a.isByDate /\ RGt(a.delayRisk, R(5, 10)) /\ RLt(a.edge, R(-5, 100))
   THEN << Signal("deadline-overpriced",
                  RMin(One, RMul(RAbs(a.edge), R(5, 1))),
                  "NO",
                  RAdd(R(7, 10), RMul(a.delayRisk, R(2, 10)))) >>
   ELSE <<>>)
  \o
  (IF a.momentum # "neutral" /\ a.isVolumeSpike /\ RGt(RAbs(a.velocity24h), R(8, 100))
   THEN << Signal("momentum-entry",
                  RMin(One, RMul(RAbs(a.velocity24h), R(5, 1))),
                  IF a.momentum = "bullish" THEN "YES" ELSE "NO",
                  RAdd(R(6, 10), RMul(a.volumeZScore, R(1, 10)))) >>
   ELSE <<>>)
  \o
  (IF RLt(a.attentionScore, R(3, 10)) /\ RGt(RAbs(a.edge), R(8, 100))
   THEN << Signal("attention-arbitrage",
                  RMul(RAbs(a.edge), R(3, 1)),
                  a.edgeDirection,
                  R(65, 100)) >>
   ELSE <<>>)
  \o
  (IF a.isVolumeSpike
   THEN << Signal("volume-precursor",
                  RDiv(a.volumeZScore, R(4, 1)),
                  "WATCH",
                  R(5, 10)) >>
   ELSE <<>>)
  \o
  (IF RGt(RAbs(a.velocity24h), R(15, 100)) /\ RGt(a.volumeZScore, R(25, 10))
   THEN << Signal("mean-reversion",
                  RMin(One, RMul(RAbs(a.velocity24h), R(3, 1))),
                  IF RGt(a.velocity24h, Zero) THEN "NO" ELSE "YES",
                  R(55, 100)) >>
   ELSE <<>>)

\* signals.push(...) in the order of the five rules
PushedSignals(a) ==
  (IF a.isByDate /\ RGt(a.delayRisk, R(5, 10)) /\ RLt(a.edge, R(-5, 100))
   THEN << Signal("deadline-overpriced",
                  RMin(One, RMul(RAbs(a.edge), R(5, 1))),
                  "NO",
                  RAdd(R(7, 10), RMul(a.delayRisk, R(2, 10)))) >>
   ELSE <<>>)
  \o
  (IF a.momentum # "neutral" /\ a.isVolumeSpike /\ RGt(RAbs(a.velocity24h), R(8, 100))
   THEN << Signal("momentum-entry",
                  RMin(One, RMul(RAbs(a.velocity24h), R(5, 1))),
                  IF a.momentum = "bullish" THEN "YES" ELSE "NO",
                  RAdd(R(6, 10), RMul(a.volumeZScore, R(1, 10)))) >>
   ELSE <<>>)
  \o
  (IF RLt(a.attentionScore, R(3, 10)) /\ RGt(RAbs(a.edge), R(8, 100))
   THEN << Signal("attention-arbitrage",
                  RMul(RAbs(a.edge), R(3, 1)),
                  a.edgeDirection,
                  R(65, 100)) >>
   ELSE <<>>)
  \o
  (IF a.isVolumeSpike /\ RLt(RAbs(a.velocity24h), R(3, 100))
   THEN << Signal("volume-precursor",
                  RDiv(a.volumeZScore, R(4, 1)),
                  "WATCH",
                  R(5, 10)) >>
   ELSE <<>>)
  \o
  (IF RGt(RAbs(a.velocity24h), R(15, 100)) /\ RGt(a.volumeZScore, R(25, 10))
   THEN << Signal("mean-reversion",
                  RMin(One, RMul(RAbs(a.velocity24h), R(3, 1))),
                  IF RGt(a.velocity24h, Zero) THEN "NO" ELSE "YES",
                  R(55, 100)) >>
   ELSE <<>>)

\* Array.prototype.sort with the comparator
\* (a, b) => b.strength * b.confidence - a.strength * a.confidence:
\* a stable sort, descending in the weight
RECURSIVE InsertByWeight(_, _)
InsertByWeight(sorted, x) ==
  IF sorted = <<>> THEN <<x>>
  ELSE IF RGt(SignalWeight(x), SignalWeight(Head(sorted)))
       THEN <<x>> \o sorted
       ELSE <<Head(sorted)>> \o InsertByWeight(Tail(sorted), x)

RECURSIVE SortByWeightFrom(_, _)
SortByWeightFrom(sorted, rest) ==
  IF rest = <<>> THEN sorted
  ELSE SortByWeightFrom(InsertByWeight(sorted, Head(rest)), Tail(rest))

SortByWeight(signals) == SortByWeightFrom(<<>>, signals)

\* variant: the signals are returned in the order the rules pushed them
generateSignals_unsorted(a) == PushedSignals(a)

generateSignals(a) == SortByWeight(PushedSignals(a))

(***************************************************************************)
(* advanced-scoring: calculateCompositeScore, scoreTier, suggestSize       *)
(***************************************************************************)
\* variant: the signals add nothing to the score
RawCompositeScore_noSignals(a) ==
  LET base == RAdd(R(50, 1), RMul(RMul(RAbs(a.edge), R(100, 1)), R(3, 10)))
      withLiquidity == RAdd(base, RMul(a.liquidityScore, R(10, 1)))
      withVolume == RAdd(withLiquidity, RMin(R(10, 1), RMul(a.volumeZScore, R(3, 1))))
      withMomentum ==
        IF a.momentum # "neutral" THEN RAdd(withVolume, R(5, 1)) ELSE withVolume
  IN  IF RLt(a.attentionScore, R(2, 10)) THEN RSub(withMomentum, R(5, 1))
      ELSE withMomentum

\* the score before it is clamped
\* variant: low attention costs 20 points
RawCompositeScore_lowAttention20(a) ==
  LET base == RAdd(R(50, 1), RMul(RMul(RAbs(a.edge), R(100, 1)), R(3, 10)))
      avgSignalStrength ==
        RDiv(RSum([i \in 1..Len(a.signals) |-> SignalWeight(a.signals[i])]),
             R(Len(a.signals), 1))
      withSignals ==
        IF Len(a.signals) > 0 THEN RAdd(base, RMul(avgSignalStrength, R(25, 1)))
        ELSE base
      withLiquidity == RAdd(withSignals, RMul(a.liquidityScore, R(10, 1)))
      withVolume == RAdd(withLiquidity, RMin(R(10, 1), RMul(a.volumeZScore, R(3, 1))))
      withMomentum ==
        IF a.momentum # "neutral" THEN RAdd(withVolume, R(5, 1)) ELSE withVolume
      score ==
        IF RLt(a.attentionScore, R(2, 10)) THEN RSub(withMomentum, R(20, 1))
        ELSE withMomentum
  IN  score

RawCompositeScore(a) ==
  LET base == RAdd(R(50, 1), RMul(RMul(RAbs(a.edge), R(100, 1)), R(3, 10)))
      avgSignalStrength ==
        RDiv(RSum([i \in 1..Len(a.signals) |-> SignalWeight(a.signals[i])]),
             R(Len(a.signals), 1))
      withSignals ==
        IF Len(a.signals) > 0 THEN RAdd(base, RMul(avgSignalStrength, R(25, 1)))
        ELSE base
      withLiquidity == RAdd(withSignals, RMul(a.liquidityScore, R(10, 1)))
      withVolume == RAdd(withLiquidity, RMin(R(10, 1), RMul(a.volumeZScore, R(3, 1))))
      withMomentum ==
        IF a.momentum # "neutral" THEN RAdd(withVolume, R(5, 1)) ELSE withVolume
      score ==
        IF RLt(a.attentionScore, R(2, 10)) THEN RSub(withMomentum, R(5, 1))
        ELSE withMomentum
  IN  score

\* variant: the score is returned as summed
calculateCompositeScore_unclamped(a) == RawCompositeScore(a)

calculateCompositeScore(a) == RMax(Zero, RMin(R(100, 1), RawCompositeScore(a)))

scoreTier(score) ==
  IF RGe(score, R(80, 1)) THEN "S"
  ELSE IF RGe(score, R(65, 1)) THEN "A"
  ELSE IF RGe(score, R(50, 1)) THEN "B"
  ELSE IF RGe(score, R(35, 1)) THEN "C"
  ELSE "D"

\* variant: the liquidity is looked at after the large size
suggestSize_liquidityLate(kelly, tier, liquidity) ==
  IF RLt(kelly, R(2, 100)) \/ tier = "D" THEN "skip"
  ELSE IF RGe(kelly, R(15, 100)) /\ (tier = "S" \/ tier = "A") THEN "large"
  ELSE IF RLt(liquidity, R(5000, 1)) THEN "small"
  ELSE IF RGe(kelly, R(8, 100)) /\ tier # "D" THEN "medium"
  ELSE "small"

suggestSize(kelly, tier, liquidity) ==
  IF RLt(kelly, R(2, 100)) \/ tier = "D" THEN "skip"
  ELSE IF RLt(liquidity, R(5000, 1)) THEN "small"
  ELSE IF RGe(kelly, R(15, 100)) /\ (tier = "S" \/ tier = "A") THEN "large"
  ELSE IF RGe(kelly, R(8, 100)) /\ tier # "D" THEN "medium"
  ELSE "small"

(***************************************************************************)
(* advanced-scoring: scoreMarketAdvanced                                   *)
(***************************************************************************)
\* snapshots.slice(from, to), with the indices of the program (from 0)
Slice(s, from, to) == SubSeq(s, from + 1, IF to < Len(s) THEN to ELSE Len(s))

\* variant: the zero prices are dropped before the 20 newest are taken
Volatility_filterFirst(snapshots, currentYesPrice) ==
  LET all == Positive([i \in 1..Len(snapshots) |-> OrElse(snapshots[i].yesPrice, Zero)])
      prices == Slice(all, 0, 20)
      avgPrice == IF Len(prices) > 0 THEN Mean(prices) ELSE currentYesPrice
      variance == IF Len(prices) > 1 THEN Variance(prices, avgPrice) ELSE Zero
  IN  RSqrt(variance)

\* population standard deviation of the non-zero yes-prices among the
\* first 20 snapshots
Volatility(snapshots, currentYesPrice) ==
  LET window == Slice(snapshots, 0, 20)
      prices == Positive([i \in 1..Len(window) |-> OrElse(window[i].yesPrice, Zero)])
      avgPrice == IF Len(prices) > 0 THEN Mean(prices) ELSE currentYesPrice
      variance == IF Len(prices) > 1 THEN Variance(prices, avgPrice) ELSE Zero
  IN  RSqrt(variance)

\* variant: the bounds 0 and 1 themselves are let through
InvalidPrice_strict(currentYesPrice) ==
  RLt(currentYesPrice, Zero) \/ RGt(currentYesPrice, One)

\* the market is resolved or degenerate: no score is given
InvalidPrice(currentYesPrice) == RLe(currentYesPrice, Zero) \/ RGe(currentYesPrice, One)

\* variant: an absent yes-price is read as 0
CurrentYesPrice_zero(latest) == OrElse(latest.yesPrice, Zero)

\* latest.yesPrice ?? 0.5
CurrentYesPrice(latest) == OrElse(latest.yesPrice, R(5, 10))

\* The rest of scoreMarketAdvanced, from the values it has computed by the
\* time it derives the edge: each of them is a const of the function,
\* computed once.  now2 is the clock as its call of timeRemainingDays reads it.
AdvancedScoreOf(a, now2, isByDate, delayOutput, volumeAnalysis, attention, volatility) ==
  LET latest == a.snapshots[1]
      currentYesPrice == CurrentYesPrice(latest)
      currentNoPrice == OrElse(latest.noPrice, RSub(One, currentYesPrice))
      edge == RSub(delayOutput.modelProb, currentYesPrice)
      edgeDirection == IF RGe(edge, Zero) THEN "YES" ELSE "NO"
      timeRemaining == timeRemainingDays(a.endDate, now2)
      urgency == deadlineUrgency(timeRemaining)
      liq == OrElse(latest.liquidity, Zero)
      liquidityScore == RMin(One, RDiv(liq, R(50000, 1)))
      velocity1h == OrElse(latest.priceChange1h, Zero)
      velocity24h == OrElse(latest.priceChange24h, Zero)
      momentum == detectMomentum([velocity1h |-> velocity1h,
                                  velocity24h |-> velocity24h,
                                  volumeZScore |-> volumeAnalysis.volumeZScore])
      kelly == calculateKelly([modelProb |-> delayOutput.modelProb,
                               marketPrice |-> currentYesPrice,
                               direction |-> edgeDirection])
  IN  CHOOSE score \in
        {LET compositeScore ==
               calculateCompositeScore([edge |-> edge,
                                        delayRisk |-> delayOutput.delayRisk,
                                        attentionScore |-> attention,
                                        volumeZScore |-> volumeAnalysis.volumeZScore,
                                        liquidityScore |-> liquidityScore,
                                        momentum |-> momentum,
                                        signals |-> signals])
             tier == scoreTier(compositeScore)
             suggestedSizeValue == suggestSize(kelly, tier, liq)
         IN  [id |-> a.id,
              title |-> a.title,
              category |-> a.category,
              currentYesPrice |-> currentYesPrice,
              currentNoPrice |-> currentNoPrice,
              modelProb |-> delayOutput.modelProb,
              edge |-> edge,
              edgeDirection |-> edgeDirection,
              delayRisk |-> delayOutput.delayRisk,
              volatility |-> volatility,
              liquidityScore |-> liquidityScore,
              timeRemainingDays |-> timeRemaining,
              urgency |-> urgency,
              attentionScore |-> attention,
              volumeZScore |-> volumeAnalysis.volumeZScore,
              isVolumeSpike |-> volumeAnalysis.isSpike,
              priceVelocity1h |-> velocity1h,
              priceVelocity24h |-> velocity24h,
              momentum |-> momentum,
              signals |-> signals,
              primarySignal |-> IF Len(signals) > 0 THEN signals[1] ELSE NULL,
              kellyFraction |-> kelly,
              suggestedSize |-> suggestedSizeValue,
              compositeScore |-> compositeScore,
              tier |-> tier] :
         signals \in {generateSignals([edge |-> edge,
                                       edgeDirection |-> edgeDirection,
                                       delayRisk |-> delayOutput.delayRisk,
                                       isByDate |-> isByDate,
                                       attentionScore |-> attention,
                                       volumeZScore |-> volumeAnalysis.volumeZScore,
                                       isVolumeSpike |-> volumeAnalysis.isSpike,
                                       momentum |-> momentum,
                                       velocity24h |-> velocity24h,
                                       timeRemainingDays |-> timeRemaining,
                                       liquidity |-> liq])}} : TRUE

\* variant: the latest snapshot is part of the volume history
scoreMarketAdvanced_latestInBaseline(a, now1, now2) ==
  IF Len(a.snapshots) = 0 THEN NULL
  ELSE
  LET latest == a.snapshots[1]
      currentYesPrice == CurrentYesPrice(latest)
      older == Slice(a.snapshots, 0, 20)
      volumeHistory == Positive([i \in 1..Len(older) |-> OrElse(older[i].volume24h, Zero)])
  IN
  IF InvalidPrice(currentYesPrice) THEN NULL
  ELSE
  CHOOSE score \in
    {AdvancedScoreOf(a, now2, isByDate, delayOutput, volumeAnalysis, attention, volatility) :
       isByDate \in {looksLikeByDateMarket(a.title, a.rules, a.description)},
       delayOutput \in {deadlineDelayModel([marketProb |-> currentYesPrice,
                                            endDate |-> a.endDate,
                                            liquidity |-> latest.liquidity,
                                            category |-> a.category], now1)},
       volumeAnalysis \in {volumeSpikeScore([volume24h |-> latest.volume24h,
                                             volumeHistory |-> volumeHistory])},
       attention \in {attentionScore([volume24h |-> latest.volume24h,
                                      priceChange24h |-> latest.priceChange24h,
                                      liquidity |-> latest.liquidity])},
       volatility \in {Volatility(a.snapshots, currentYesPrice)}} : TRUE

\* now1 is the clock as deadlineDelayModel reads it, now2 the clock as the
\* later call of timeRemainingDays reads it
scoreMarketAdvanced(a, now1, now2) ==
  IF Len(a.snapshots) = 0 THEN NULL
  ELSE
  LET latest == a.snapshots[1]
      currentYesPrice == CurrentYesPrice(latest)
      older == Slice(a.snapshots, 1, 20)
      volumeHistory == Positive([i \in 1..Len(older) |-> OrElse(older[i].volume24h, Zero)])
  IN
  IF InvalidPrice(currentYesPrice) THEN NULL
  ELSE
  CHOOSE score \in
    {AdvancedScoreOf(a, now2, isByDate, delayOutput, volumeAnalysis, attention, volatility) :
       isByDate \in {looksLikeByDateMarket(a.title, a.rules, a.description)},
       delayOutput \in {deadlineDelayModel([marketProb |-> currentYesPrice,
                                            endDate |-> a.endDate,
                                            liquidity |-> latest.liquidity,
                                            category |-> a.category], now1)},
       volumeAnalysis \in {volumeSpikeScore([volume24h |-> latest.volume24h,
                                             volumeHistory |-> volumeHistory])},
       attention \in {attentionScore([volume24h |-> latest.volume24h,
                                      priceChange24h |-> latest.priceChange24h,
                                      liquidity |-> latest.liquidity])},
       volatility \in {Volatility(a.snapshots, currentYesPrice)}} : TRUE

(***************************************************************************)
(* Input sets                                                              *)
(***************************************************************************)
Probs == {R(i, PriceSteps) : i \in 0..PriceSteps}

\* hours from the clock to an end date: around every time bucket's edge,
\* one in the past, and the furthest
EndOffsets ==
  {d * HoursPerDay + e : d \in {0, 7, 30, 90, 180}, e \in {-1, 0, 1}}
    \cup {-2 * HoursPerDay, 5 * HoursPerDay, MaxDays * HoursPerDay}

EndDates == {NULL} \cup {R(h, 1) : h \in EndOffsets}

Liquidities == {NULL} \cup {R(x, 1) : x \in {0, 2000, 4999, 5000, 19999, 20000, 60000}}

Categories ==
  {NULL} \cup {Str(Chars(c)) : c \in {"", "Politics", "Crypto", "DeFi Protocol", "Legal",
                                        "Regulation", "Crypto Politics", "Politics & Legal",
                                        "Sports"}}

\* the probabilities, and one number on either side of them
SuppliedProbs == Probs \cup {R(-1, PriceSteps), R(PriceSteps + 1, PriceSteps)}

DelayArgs ==
  [marketProb : SuppliedProbs, endDate : EndDates, liquidity : Liquidities, category : Categories]

KellyArgs == [modelProb : Probs, marketPrice : Probs, direction : {"YES", "NO"}]

\* volumes, in dollars; zero and a negative entry are the ones the filter drops
Volumes == {R(x, 1) : x \in {-100, 0, 100, 300, 500}}

SeqsUpTo(S, n) == UNION {[1..k -> S] : k \in 0..n}

VolumeArgs ==
  [volume24h : {NULL} \cup Volumes \cup {R(400, 1), R(1000, 1)},
   volumeHistory : SeqsUpTo(Volumes, MaxHistory)]

\* the quotes of the latest snapshot: <<yesPrice, noPrice>>
Quotes ==
  {<<NULL, NULL>>,
   <<Zero, One>>,
   <<R(PriceSteps \div 5, PriceSteps), R(PriceSteps - (PriceSteps \div 5), PriceSteps)>>,
   <<R((2 * PriceSteps) \div 5, PriceSteps), NULL>>,
   <<R(PriceSteps - 1, PriceSteps), R(1, PriceSteps)>>,
   <<One, Zero>>}

\* the price changes of the latest snapshot: <<priceChange1h, priceChange24h>>
PriceChanges ==
  {<<NULL, NULL>>,
   <<R(3, 100), R(4, 100)>>,
   <<R(3, 100), R(10, 100)>>,
   <<R(-3, 100), R(-10, 100)>>,
   <<R(1, 100), R(20, 100)>>,
   <<R(-1, 100), R(-20, 100)>>}

Snapshot(age, yesPrice, noPrice, volume24h, liquidity, priceChange1h, priceChange24h) ==
  [capturedAt |-> R(-age, 1), yesPrice |-> yesPrice, noPrice |-> noPrice,
   volume24h |-> volume24h, liquidity |-> liquidity,
   priceChange1h |-> priceChange1h, priceChange24h |-> priceChange24h]

\* an older snapshot: the scorer reads its volume24h and yesPrice only
Older(age, volume24h, yesPrice) == Snapshot(age, yesPrice, NULL, volume24h, NULL, NULL, NULL)

\* the older snapshots, newest first, by their volumes; the yes-prices alternate
OlderOf(volumes) ==
  [i \in 1..Len(volumes) |->
     Older(i, volumes[i], IF i % 2 = 1 THEN R(4, 10) ELSE R(6, 10))]

\* more older snapshots than either window of the scorer takes: volumes and
\* yes-prices alternate within the windows with one snapshot without volume
\* or price and one with a zero price, and the snapshots beyond the windows
\* carry a volume and a price unlike any within them
LongHistory ==
  [i \in 1..(MaxSnapshots - 1) |->
     Older(i,
           IF i = 3 THEN NULL
           ELSE IF i >= 20 THEN R(100000, 1)
           ELSE IF i % 2 = 1 THEN R(100, 1) ELSE R(300, 1),
           IF i = 3 THEN NULL
           ELSE IF i = 5 THEN Zero
           ELSE IF i >= 20 THEN R(9, 10)
           ELSE IF i % 2 = 1 THEN R(9, 20) ELSE R(11, 20))]

\* the volume of the latest snapshot and the snapshots before it
VolumeScenarios ==
  {[current |-> NULL, older |-> <<>>],
   [current |-> R(200000, 1), older |-> <<>>],
   [current |-> R(1000, 1),
    older |-> <<Older(1, R(100, 1), R(4, 10)), Older(2, NULL, NULL),
                Older(3, Zero, Zero), Older(4, R(300, 1), R(6, 10))>>],
   [current |-> R(350, 1),
    older |-> OlderOf(<<R(100, 1), R(300, 1), R(100, 1), R(300, 1)>>)],
   [current |-> R(500, 1),
    older |-> OlderOf(<<R(100, 1), R(300, 1), R(100, 1), R(300, 1)>>)],
   [current |-> R(1000, 1),
    older |-> OlderOf(<<R(100, 1), R(300, 1), R(100, 1), R(300, 1)>>)],
   [current |-> Zero,
    older |-> OlderOf(<<R(1000, 1), R(1200, 1), R(1000, 1), R(1200, 1)>>)],
   [current |-> R(500, 1), older |-> LongHistory]}

\* title, rules, description
Texts ==
  {[title |-> Chars("Bill passes?"), rules |-> NULL, description |-> NULL],
   [title |-> Chars("Bill passes by May 5?"), rules |-> Str(Chars("Signed.")),
    description |-> NULL]}

ScoreEndDates ==
  {NULL} \cup {R(d * HoursPerDay, 1) : d \in {-2, 5, 7, 60, 120, MaxDays}}

ScoreLiquidities == {NULL, R(2000, 1), R(60000, 1)}

ScoreCategories == {NULL, Str(Chars("Politics"))}

Market(text, category, endDate, quote, liquidity, change, volume) ==
  [id |-> "m1",
   title |-> text.title,
   description |-> text.description,
   rules |-> text.rules,
   category |-> category,
   endDate |-> endDate,
   snapshots |-> <<Snapshot(0, quote[1], quote[2], volume.current, liquidity,
                            change[1], change[2])>> \o volume.older]

ScoreArgs ==
  {[id |-> "m0", title |-> Chars("Bill passes?"), description |-> NULL, rules |-> NULL,
    category |-> NULL, endDate |-> NULL, snapshots |-> <<>>]}
  \cup
  {Market(text, category, endDate, quote, liquidity, change, volume) :
     text \in Texts, category \in ScoreCategories, endDate \in ScoreEndDates,
     quote \in Quotes, liquidity \in ScoreLiquidities, change \in PriceChanges,
     volume \in VolumeScenarios}

\* arguments of extractDeadline: titles and rules with and without a date
\* in each of the five shapes, some of them not the text of any date
DeadlineTitles ==
  {Chars("Bill passes?"),
   Chars("Bill passes by March 31, 2026?"),
   Chars("Bill passes by Blah 31, 2026?"),
   Chars("Signed before April 1, 2026?"),
   Chars("Vote by Feb 30, 2026"),
   Chars("Vote on 3/31/2026"),
   Chars("Vote on 13/45/2026"),
   Chars("Vote on 0/5/2026"),
   Chars("Done by end of March 2026?"),
   Chars("Passes this year?"),
   Chars("Passes This Year?")}

DeadlineRules ==
  {NULL, Str(Chars("Signed.")), Str(Chars("Resolves 6/30/2026.")),
   Str(Chars("Resolves by Smarch 1, 2026."))}

DeadlineArgs ==
  [title : DeadlineTitles, rules : DeadlineRules,
   endDate : {NULL, R(10 * HoursPerDay, 1), InvalidDate}]

\* arguments of suggestSize called on its own: a kelly at and on either side
\* of 0.02, 0.08 and 0.15, and a liquidity at and on either side of 5000
SuggestArgs ==
  [kelly : {R(k, 100) : k \in {0, 1, 2, 5, 8, 10, 15, 25}},
   tier : {"S", "A", "B", "C", "D"},
   liquidity : {R(x, 1) : x \in {0, 2000, 4999, 5000, 60000}}]

\* arguments of detectMomentum called on its own: velocities at and on either
\* side of the thresholds of both regimes, a z-score at and around 1
MomentumArgs ==
  [velocity1h : {R(v, 100) : v \in {-5, -2, 0, 2, 3}},
   velocity24h : {R(v, 100) : v \in {-10, -5, -4, -3, 0, 3, 4, 5, 10}},
   volumeZScore : {R(z, 2) : z \in {-2, 2, 3}}]

\* arguments of generateSignals called on its own
ZScores == {<<R(-2, 1), FALSE>>, <<Zero, FALSE>>, <<R(5, 2), TRUE>>, <<R(3, 1), TRUE>>,
            <<R(8, 1), TRUE>>}

SignalArgs ==
  [edge : {R(10, 100), R(-5, 100), R(-6, 100), R(-8, 100), R(-36, 100)},
   edgeDirection : {"YES", "NO"},
   delayRisk : {Zero, R(5, 10), One},
   isByDate : BOOLEAN,
   attentionScore : {R(1, 10), R(3, 10)},
   zScore : ZScores,
   momentum : {"bullish", "bearish", "neutral"},
   velocity24h : {Zero, R(3, 100), R(8, 100), R(-10, 100), R(15, 100), R(20, 100),
                  R(-20, 100)},
   timeRemainingDays : {R(5, 1)},
   liquidity : {R(2000, 1)}]

SignalCall(a) ==
  [edge |-> a.edge, edgeDirection |-> a.edgeDirection, delayRisk |-> a.delayRisk,
   isByDate |-> a.isByDate, attentionScore |-> a.attentionScore,
   volumeZScore |-> a.zScore[1], isVolumeSpike |-> a.zScore[2],
   momentum |-> a.momentum, velocity24h |-> a.velocity24h,
   timeRemainingDays |-> a.timeRemainingDays, liquidity |-> a.liquidity]

\* arguments of calculateCompositeScore called on its own
SampleSignals ==
  {Signal("volume-precursor", R(5, 8), "WATCH", R(5, 10)),
   Signal("attention-arbitrage", R(108, 100), "NO", R(65, 100)),
   Signal("momentum-entry", One, "YES", R(14, 10))}

CompositeArgs ==
  [edge : {Zero, R(-20, 100), R(-41, 100)},
   delayRisk : {Zero, One},
   attentionScore : {R(1, 10), R(5, 10)},
   volumeZScore : {R(-20, 1), R(-2, 1), Zero, R(3, 1), R(8, 1)},
   liquidityScore : {Zero, R(1, 5), One},
   momentum : {"bullish", "neutral"},
   signals : SeqsUpTo(SampleSignals, MaxSignals)]

(***************************************************************************)
(* The calls.  A specification draws the arguments of one function and has *)
(* the one action that applies it.                                         *)
(***************************************************************************)
Calling(f, argSet) ==
  /\ fn = f
  /\ pc = "call"
  /\ args \in argSet
  /\ ret = NULL
  /\ clock = Zero

Returned(f) == fn = f /\ pc = "done"

InitDelay == Calling("deadlineDelayModel", DelayArgs)

CallDeadlineDelayModel ==
  /\ fn = "deadlineDelayModel" /\ pc = "call"
  /\ ret' = deadlineDelayModel(args, clock)
  /\ pc' = "done"
  /\ UNCHANGED <<fn, args, clock>>

SpecDelay == InitDelay /\ [][CallDeadlineDelayModel]_vars

InitKelly == Calling("calculateKelly", KellyArgs)

CallCalculateKelly ==
  /\ fn = "calculateKelly" /\ pc = "call"
  /\ ret' = calculateKelly(args)
  /\ pc' = "done"
  /\ UNCHANGED <<fn, args, clock>>

SpecKelly == InitKelly /\ [][CallCalculateKelly]_vars

InitVolume == Calling("volumeSpikeScore", VolumeArgs)

CallVolumeSpikeScore ==
  /\ fn = "volumeSpikeScore" /\ pc = "call"
  /\ ret' = volumeSpikeScore(args)
  /\ pc' = "done"
  /\ UNCHANGED <<fn, args, clock>>

SpecVolume == InitVolume /\ [][CallVolumeSpikeScore]_vars

InitScore == Calling("scoreMarketAdvanced", ScoreArgs)

\* The call reads the ambient clock twice, in deadlineDelayModel and in its
\* own call of timeRemainingDays; the clock may advance in between.
CallScoreMarketAdvanced ==
  /\ fn = "scoreMarketAdvanced" /\ pc = "call"
  /\ \E skew \in 0..MaxSkew :
       /\ ret' = scoreMarketAdvanced(args, clock, RAdd(clock, R(skew, 1)))
       /\ clock' = RAdd(clock, R(skew, 1))
  /\ pc' = "done"
  /\ UNCHANGED <<fn, args>>

SpecScore == InitScore /\ [][CallScoreMarketAdvanced]_vars

InitSignals == Calling("generateSignals", {SignalCall(a) : a \in SignalArgs})

CallGenerateSignals ==
  /\ fn = "generateSignals" /\ pc = "call"
  /\ ret' = generateSignals(args)
  /\ pc' = "done"
  /\ UNCHANGED <<fn, args, clock>>

SpecSignals == InitSignals /\ [][CallGenerateSignals]_vars

InitComposite == Calling("calculateCompositeScore", CompositeArgs)

CallCalculateCompositeScore ==
  /\ fn = "calculateCompositeScore" /\ pc = "call"
  /\ ret' = calculateCompositeScore(args)
  /\ pc' = "done"
  /\ UNCHANGED <<fn, args, clock>>

SpecComposite == InitComposite /\ [][CallCalculateCompositeScore]_vars

InitDeadline == Calling("extractDeadline", DeadlineArgs)

CallExtractDeadline ==
  /\ fn = "extractDeadline" /\ pc = "call"
  /\ ret' = extractDeadline(args, clock)
  /\ pc' = "done"
  /\ UNCHANGED <<fn, args, clock>>

SpecDeadline == InitDeadline /\ [][CallExtractDeadline]_vars

InitSuggest == Calling("suggestSize", SuggestArgs)

CallSuggestSize ==
  /\ fn = "suggestSize" /\ pc = "call"
  /\ ret' = suggestSize(args.kelly, args.tier, args.liquidity)
  /\ pc' = "done"
  /\ UNCHANGED <<fn, args, clock>>

SpecSuggest == InitSuggest /\ [][CallSuggestSize]_vars

InitMomentum == Calling("detectMomentum", MomentumArgs)

CallDetectMomentum ==
  /\ fn = "detectMomentum" /\ pc = "call"
  /\ ret' = detectMomentum(args)
  /\ pc' = "done"
  /\ UNCHANGED <<fn, args, clock>>

SpecMomentum == InitMomentum /\ [][CallDetectMomentum]_vars

\* a function called on its own together with the scorer that calls it
SpecSizing ==
  (InitKelly \/ InitScore) /\ [][CallCalculateKelly \/ CallScoreMarketAdvanced]_vars

SpecRanking ==
  (InitComposite \/ InitScore)
    /\ [][CallCalculateCompositeScore \/ CallScoreMarketAdvanced]_vars

SpecSignalling ==
  (InitSignals \/ InitScore) /\ [][CallGenerateSignals \/ CallScoreMarketAdvanced]_vars

SpecPenalty ==
  (InitDelay \/ InitScore) /\ [][CallDeadlineDelayModel \/ CallScoreMarketAdvanced]_vars

\* every function of the engine
Init ==
  \/ InitDelay \/ InitVolume \/ InitKelly \/ InitSignals \/ InitComposite \/ InitScore
  \/ InitDeadline \/ InitSuggest \/ InitMomentum

Next ==
  \/ CallDeadlineDelayModel
  \/ CallVolumeSpikeScore
  \/ CallCalculateKelly
  \/ CallGenerateSignals
  \/ CallCalculateCompositeScore
  \/ CallScoreMarketAdvanced
  \/ CallExtractDeadline
  \/ CallSuggestSize
  \/ CallDetectMomentum

Spec == Init /\ [][Next]_vars

(***************************************************************************)
(* Properties                                                              *)
(***************************************************************************)
IsNumber(x) == DOMAIN x = {"n", "d"} /\ x.d > 0

InUnit(x) == IsNumber(x) /\ RLe(Zero, x) /\ RLe(x, One)

Latest == args.snapshots[1]

ScoreFields ==
  {"id", "title", "category", "currentYesPrice", "currentNoPrice", "modelProb", "edge",
   "edgeDirection", "delayRisk", "volatility", "liquidityScore", "timeRemainingDays",
   "urgency", "attentionScore", "volumeZScore", "isVolumeSpike", "priceVelocity1h",
   "priceVelocity24h", "momentum", "signals", "primarySignal", "kellyFraction",
   "suggestedSize", "compositeScore", "tier"}

FullScore(r) ==
  /\ DOMAIN r = ScoreFields
  /\ \A f \in {"currentYesPrice", "currentNoPrice", "modelProb", "edge", "delayRisk",
                "volatility", "liquidityScore", "attentionScore", "volumeZScore",
                "priceVelocity1h", "priceVelocity24h", "kellyFraction",
                "compositeScore"} : IsNumber(r[f])
  /\ r.edgeDirection \in {"YES", "NO"}
  /\ r.urgency \in {"critical", "urgent", "moderate", "distant", "unknown"}
  /\ r.isVolumeSpike \in BOOLEAN
  /\ r.momentum \in {"bullish", "bearish", "neutral"}
  /\ r.suggestedSize \in {"skip", "small", "medium", "large"}
  /\ r.tier \in {"S", "A", "B", "C", "D"}
  /\ \A i \in 1..Len(r.signals) :
        IsNumber(r.signals[i].strength) /\ IsNumber(r.signals[i].confidence)

\* the scorer has returned a score, not null
Scored == Returned("scoreMarketAdvanced") /\ ret # NULL

\* C1: scoreMarketAdvanced returns null exactly when there is no snapshot or
\* the latest snapshot's yes-price is given and is <= 0 or >= 1; in every
\* other case it returns an AdvancedScore with every field filled in, also
\* when volume, liquidity, price changes, category or end date are absent.
C1_NullOrFullScore ==
  Returned("scoreMarketAdvanced") =>
    LET rejected ==
          \/ Len(args.snapshots) = 0
          \/ /\ Latest.yesPrice # NULL
             /\ (RLe(Latest.yesPrice, Zero) \/ RGe(Latest.yesPrice, One))
    IN  /\ (ret = NULL) <=> rejected
        /\ ret # NULL => FullScore(ret)

\* a score was returned for a market whose optional inputs are all absent
C1_Witness ==
  /\ Scored
  /\ Latest.volume24h = NULL /\ Latest.liquidity = NULL
  /\ Latest.priceChange1h = NULL /\ Latest.priceChange24h = NULL
  /\ args.category = NULL /\ args.endDate = NULL
  /\ Len(args.snapshots) = 1

\* C2: for every marketProb in [0,1] and every end date, liquidity and
\* category, deadlineDelayModel returns modelProb and delayRisk in [0,1].
C2_ClampInvariant ==
  Returned("deadlineDelayModel") /\ InUnit(args.marketProb) =>
    InUnit(ret.modelProb) /\ InUnit(ret.delayRisk)

\* both clamps were needed: the penalty is above 0.30 and above marketProb
C2_Witness ==
  /\ Returned("deadlineDelayModel")
  /\ args.endDate # NULL
  /\ LET days == timeRemainingDays(args.endDate, clock)
          penalty == DelayPenalty(TimePenalty(days), LiquidityPenalty(args.liquidity),
                                  CategoryPenalty(args.category))
      IN  RGt(penalty, R(30, 100)) /\ RGt(penalty, args.marketProb)
  /\ RGt(args.marketProb, Zero)
  /\ ret.modelProb = Zero /\ ret.delayRisk = One

\* C3: calculateKelly returns a value in [0, 0.25] for every modelProb and
\* marketPrice in [0,1] and both directions, and so the kellyFraction of
\* every AdvancedScore is in [0, 0.25].
C3_KellyRange ==
  /\ Returned("calculateKelly") =>
        IsNumber(ret) /\ RLe(Zero, ret) /\ RLe(ret, R(25, 100))
  /\ Scored =>
        /\ IsNumber(ret.kellyFraction)
        /\ RLe(Zero, ret.kellyFraction) /\ RLe(ret.kellyFraction, R(25, 100))

\* the cap was needed: modelProb 0.6 against a price of 0.4 is a Kelly
\* fraction of 1/3
C3_Witness ==
  /\ Returned("calculateKelly")
  /\ args.direction = "YES"
  /\ RGt(RSub(args.modelProb, args.marketPrice),
         RMul(R(25, 100), RSub(One, args.marketPrice)))
  /\ RGt(args.marketPrice, Zero)
  /\ ret = R(25, 100)

\* C4: every signal of an AdvancedScore has strength in [0,1] and
\* confidence in [0,1].
C4_SignalsInUnit ==
  Scored =>
    \A i \in 1..Len(ret.signals) :
      InUnit(ret.signals[i].strength) /\ InUnit(ret.signals[i].confidence)

\* C5: calculateCompositeScore returns a value in [0,100] for all inputs,
\* and every AdvancedScore has compositeScore in [0,100] and the tier that
\* the thresholds 80, 65, 50, 35 give it.
TierOf(score) ==
  CHOOSE t \in {"S", "A", "B", "C", "D"} :
    /\ t = "S" <=> RGe(score, R(80, 1))
    /\ t = "A" <=> RGe(score, R(65, 1)) /\ RLt(score, R(80, 1))
    /\ t = "B" <=> RGe(score, R(50, 1)) /\ RLt(score, R(65, 1))
    /\ t = "C" <=> RGe(score, R(35, 1)) /\ RLt(score, R(50, 1))
    /\ t = "D" <=> RLt(score, R(35, 1))

C5_CompositeRange ==
  /\ Returned("calculateCompositeScore") =>
        IsNumber(ret) /\ RLe(Zero, ret) /\ RLe(ret, R(100, 1))
  /\ Scored =>
        /\ RLe(Zero, ret.compositeScore) /\ RLe(ret.compositeScore, R(100, 1))
        /\ ret.tier = TierOf(ret.compositeScore)

\* a clamp was needed: a negative volume z-score took the sum below 0, or
\* signals weighing more than 1 took it above 100
C5_Witness ==
  /\ Returned("calculateCompositeScore")
  /\ \/ RLt(RawCompositeScore(args), Zero) /\ RLt(args.volumeZScore, Zero) /\ ret = Zero
     \/ /\ RGt(RawCompositeScore(args), R(100, 1))
        /\ \E i \in 1..Len(args.signals) : RGt(SignalWeight(args.signals[i]), One)
        /\ ret = R(100, 1)

\* C6: the list generateSignals returns is in non-increasing order of
\* strength * confidence; primarySignal is its first element, and null
\* exactly when the list is empty, so no signal outweighs primarySignal.
Descending(signals) ==
  \A i \in 1..Len(signals) : \A j \in 1..Len(signals) :
    i < j => RGe(SignalWeight(signals[i]), SignalWeight(signals[j]))

C6_SortedSignals ==
  /\ Returned("generateSignals") => Descending(ret)
  /\ Scored =>
        /\ Descending(ret.signals)
        /\ (ret.primarySignal = NULL) <=> (Len(ret.signals) = 0)
        /\ Len(ret.signals) > 0 => ret.primarySignal = ret.signals[1]
        /\ \A i \in 1..Len(ret.signals) :
              RLe(SignalWeight(ret.signals[i]), SignalWeight(ret.primarySignal))

\* the sort moved a signal: the rules pushed a lighter signal first
C6_Witness ==
  /\ Returned("generateSignals")
  /\ Len(ret) >= 2
  /\ ~Descending(PushedSignals(args))
  /\ RGt(SignalWeight(ret[1]), SignalWeight(ret[Len(ret)]))

\* C8: with the same marketProb, liquidity and category, an end date with
\* no more days remaining has a delay penalty at least as large, a
\* delayRisk at least as large and a modelProb no larger.
PenaltyAt(endDate) ==
  DelayPenalty(TimePenalty(timeRemainingDays(endDate, clock)),
               LiquidityPenalty(args.liquidity), CategoryPenalty(args.category))

C8_MonotoneInTime ==
  Returned("deadlineDelayModel") /\ args.endDate # NULL =>
    \A later \in EndDates \ {NULL} :
      RLe(timeRemainingDays(args.endDate, clock), timeRemainingDays(later, clock)) =>
        LET other == deadlineDelayModel([args EXCEPT !.endDate = later], clock)
        IN  /\ RGe(PenaltyAt(args.endDate), PenaltyAt(later))
            /\ RGe(ret.delayRisk, other.delayRisk)
            /\ RLe(ret.modelProb, other.modelProb)

\* a nearer end date was penalised strictly more, and observably so
C8_Witness ==
  /\ Returned("deadlineDelayModel") /\ args.endDate # NULL
  /\ \E later \in EndDates \ {NULL} :
       LET other == deadlineDelayModel([args EXCEPT !.endDate = later], clock)
       IN  /\ RLt(timeRemainingDays(args.endDate, clock), timeRemainingDays(later, clock))
           /\ RGt(PenaltyAt(args.endDate), PenaltyAt(later))
           /\ RGt(ret.delayRisk, other.delayRisk)
           /\ RLt(ret.modelProb, other.modelProb)

\* C9: volumeSpikeScore returns volumeZScore = 0 and isSpike = false
\* whenever fewer than 3 entries of the history are strictly positive,
\* whatever the current volume.
PositiveCount(h) == Cardinality({i \in 1..Len(h) : RGt(h[i], Zero)})

C9_InsufficientHistory ==
  Returned("volumeSpikeScore") /\ PositiveCount(args.volumeHistory) < 3 =>
    ret.volumeZScore = Zero /\ ret.isSpike = FALSE

\* a history of 3 or more entries, fewer than 3 of them positive, and a
\* current volume far above them
C9_Witness ==
  /\ Returned("volumeSpikeScore")
  /\ Len(args.volumeHistory) >= 3
  /\ PositiveCount(args.volumeHistory) = 2
  /\ args.volume24h = R(1000, 1)
  /\ ret.volumeZScore = Zero /\ ret.isSpike = FALSE

\* C10: calculateKelly returns exactly 0 when marketPrice is 0 or 1, for
\* either direction and any modelProb.
C10_DegeneratePrice ==
  Returned("calculateKelly") /\ args.marketPrice \in {Zero, One} => ret = Zero

\* a resolved market on which the model still sees an edge
C10_Witness ==
  /\ Returned("calculateKelly")
  /\ \/ args.marketPrice = Zero /\ args.direction = "YES" /\ RGt(args.modelProb, Zero)
     \/ args.marketPrice = One /\ args.direction = "NO" /\ RLt(args.modelProb, One)
  /\ ret = Zero

\* C11: in every result of deadlineDelayModel for a marketProb in [0,1],
\* delayRisk = clamp01(P / 0.30) and modelProb = clamp01(marketProb - P) for
\* the same penalty P (0 without an end date); delayRisk = 0 exactly when
\* there is no end date, and then modelProb = marketProb; whenever
\* modelProb > 0, delayRisk = clamp01((marketProb - modelProb) / 0.30); and
\* for marketProb > 0, modelProb = marketProb only where delayRisk = 0.
AppliedPenalty == IF args.endDate = NULL THEN Zero ELSE PenaltyAt(args.endDate)

C11_RiskFromPenalty ==
  Returned("deadlineDelayModel") /\ InUnit(args.marketProb) =>
    /\ ret.delayRisk = clamp01(RDiv(AppliedPenalty, R(30, 100)))
    /\ ret.modelProb = clamp01(RSub(args.marketProb, AppliedPenalty))
    /\ (ret.delayRisk = Zero) <=> (args.endDate = NULL)
    /\ ret.delayRisk = Zero => ret.modelProb = args.marketProb
    /\ RGt(ret.modelProb, Zero) =>
          ret.delayRisk = clamp01(RDiv(RSub(args.marketProb, ret.modelProb), R(30, 100)))
    /\ RGt(args.marketProb, Zero) /\ ret.modelProb = args.marketProb =>
          ret.delayRisk = Zero

\* a liquidity and a category adjustment are part of a delayRisk below 1,
\* and modelProb shows the whole penalty
C11_Witness ==
  /\ Returned("deadlineDelayModel") /\ args.endDate # NULL
  /\ RGt(LiquidityPenalty(args.liquidity)[1], Zero)
  /\ RGt(CategoryPenalty(args.category)[1], Zero)
  /\ RGt(ret.modelProb, Zero) /\ RLt(ret.delayRisk, One)
  /\ RMul(ret.delayRisk, R(30, 100)) = RSub(args.marketProb, ret.modelProb)

\* C11 as stated: delayRisk = 0 exactly when modelProb = marketProb.  A
\* marketProb of 0 with an end date is penalised and still returned as 0.
C11_ZeroRiskIffUnchanged ==
  Returned("deadlineDelayModel") =>
    ((ret.delayRisk = Zero) <=> (ret.modelProb = args.marketProb))

\* C12: when the latest snapshot has no yes-price, scoreMarketAdvanced does
\* not return null: it takes 0.5 as the yes-price (and 1 - 0.5 as the no-price
\* if that is absent too) and returns a full score whose edge is measured
\* against 0.5.
C12_AbsentPriceScored ==
  Returned("scoreMarketAdvanced") /\ Len(args.snapshots) > 0 /\ Latest.yesPrice = NULL =>
    /\ ret # NULL
    /\ FullScore(ret)
    /\ ret.currentYesPrice = R(5, 10)
    /\ ret.currentNoPrice = OrElse(Latest.noPrice, R(5, 10))
    /\ ret.edge = RSub(ret.modelProb, R(5, 10))

\* a market without a yes-price was scored, and penalised below 0.5
C12_Witness ==
  /\ Scored
  /\ Latest.yesPrice = NULL
  /\ args.endDate # NULL
  /\ ret.currentYesPrice = R(5, 10)
  /\ RLt(ret.modelProb, R(5, 10))
  /\ ret.edgeDirection = "NO"

\* C12 as stated: no yes-price in the latest snapshot, so null is returned.
C12_AbsentPriceNull ==
  Returned("scoreMarketAdvanced") /\ Len(args.snapshots) > 0 /\ Latest.yesPrice = NULL =>
    ret = NULL

\* C13: without a structured end date, extractDeadline returns null or a
\* valid date, never an invalid Date; what is not a valid date reaches
\* timeRemainingDays as "no deadline" (null days).
C13_NullOrValidDate ==
  Returned("extractDeadline") /\ args.endDate = NULL =>
    /\ ret = NULL \/ IsNumber(ret)
    /\ ~IsNumber(ret) => timeRemainingDays(ret, clock) = NULL

\* C14: whenever the sum of the time, liquidity and category penalties is
\* above 0.30 and at least marketProb, deadlineDelayModel returns
\* delayRisk = 1 and modelProb = 0, and a score with these has
\* edge = -yesPrice; a yes-price of 0.20, an end date 5 days ahead,
\* liquidity 2000 and category "Politics" give penalty 0.36, delayRisk 1,
\* modelProb 0 and edge -0.20.
ExampleMarket(yesPrice, endDate, liquidity, category) ==
  /\ yesPrice = R(20, 100)
  /\ endDate = R(5 * HoursPerDay, 1)
  /\ liquidity = R(2000, 1)
  /\ category = Str(Chars("Politics"))

C14_BothClampsEngage ==
  /\ Returned("deadlineDelayModel") /\ args.endDate # NULL /\ InUnit(args.marketProb) =>
        /\ RGt(AppliedPenalty, R(30, 100)) /\ RGe(AppliedPenalty, args.marketProb) =>
              ret.delayRisk = One /\ ret.modelProb = Zero
        /\ ExampleMarket(args.marketProb, args.endDate, args.liquidity, args.category) =>
              /\ AppliedPenalty = R(36, 100)
              /\ ret.delayRisk = One /\ ret.modelProb = Zero
  /\ Scored =>
        /\ ret.delayRisk = One /\ ret.modelProb = Zero =>
              ret.edge = RSub(Zero, ret.currentYesPrice)
        /\ ExampleMarket(Latest.yesPrice, args.endDate, Latest.liquidity, args.category) =>
              /\ ret.delayRisk = One /\ ret.modelProb = Zero
              /\ ret.edge = R(-20, 100) /\ ret.edgeDirection = "NO"

\* the example market was scored
C14_Witness ==
  /\ Scored
  /\ ExampleMarket(Latest.yesPrice, args.endDate, Latest.liquidity, args.category)
  /\ ret.edge = R(-20, 100)

\* C15: a market with yes-price 0.20, end date 5 days ahead, liquidity 2000
\* and category "Politics", with volume z-score 0, no spike and zero price
\* changes, receives tier B when its text does not read as by-date and
\* tier A when it does; with no volume at all the composite score is 61.15
\* and 67.525.
QuietExample ==
  /\ Scored
  /\ ExampleMarket(Latest.yesPrice, args.endDate, Latest.liquidity, args.category)
  /\ ret.volumeZScore = Zero /\ ~ret.isVolumeSpike
  /\ ret.priceVelocity1h = Zero /\ ret.priceVelocity24h = Zero

EffectiveProb == IF args.direction = "YES" THEN args.modelProb ELSE RSub(One, args.modelProb)

EffectivePrice ==
  IF args.direction = "YES" THEN args.marketPrice ELSE RSub(One, args.marketPrice)

C16_KellyFormula ==
  Returned("calculateKelly") /\ RGt(EffectivePrice, Zero) /\ RLt(EffectivePrice, One) =>
    LET gain == RSub(EffectiveProb, EffectivePrice)
        room == RSub(One, EffectivePrice)
    IN  /\ ret = RMax(Zero, RMin(R(25, 100), RDiv(gain, room)))
        /\ RLe(EffectiveProb, EffectivePrice) => ret = Zero
        /\ RGe(gain, RMul(R(25, 100), room)) => ret = R(25, 100)
        /\ (args.modelProb = R(6, 10) /\ args.marketPrice = R(4, 10)
               /\ args.direction = "YES") => ret = R(25, 100)

\* a NO position sized strictly between the two clamps
C16_Witness ==
  /\ Returned("calculateKelly")
  /\ args.direction = "NO"
  /\ RGt(EffectivePrice, Zero) /\ RLt(EffectivePrice, One)
  /\ RGt(ret, Zero) /\ RLt(ret, R(25, 100))
  /\ ret = RDiv(RSub(EffectiveProb, EffectivePrice), RSub(One, EffectivePrice))

\* C17: with at least 3 positive history values, volumeSpikeScore returns
\* z = 0 and no spike when the population variance of the positive values
\* is 0; otherwise z * stdDev = current - mean, and isSpike exactly when
\* z > 2.0; a current volume at or below the mean is never a spike.  The
\* example, at 1/500 of its scale: current 1000 against mean 200 and
\* stdDev 100 is z = 8, a spike.
MeanOfSquares(h) == RDiv(RSum([i \in 1..Len(h) |-> RMul(h[i], h[i])]), R(Len(h), 1))

C17_OneSidedSpike ==
  Returned("volumeSpikeScore") /\ PositiveCount(args.volumeHistory) >= 3 =>
    LET h == SelectSeq(args.volumeHistory, LAMBDA v : v.n > 0)
        current == IF args.volume24h = NULL THEN Zero ELSE args.volume24h
        mean == RDiv(RSum(h), R(Len(h), 1))
        variance == RSub(MeanOfSquares(h), RMul(mean, mean))
    IN  /\ variance = Zero => ret.volumeZScore = Zero /\ ~ret.isSpike
        /\ variance # Zero =>
              /\ RMul(ret.volumeZScore, RSqrt(variance)) = RSub(current, mean)
              /\ ret.isSpike <=> RGt(ret.volumeZScore, R(2, 1))
        /\ RLe(current, mean) => ~ret.isSpike
        /\ (current = R(1000, 1) /\ mean = R(200, 1) /\ variance = R(10000, 1)) =>
              ret.volumeZScore = R(8, 1) /\ ret.isSpike

\* the example at that scale was scored
C17_Witness ==
  /\ Returned("volumeSpikeScore")
  /\ args.volume24h = R(1000, 1)
  /\ args.volumeHistory = <<R(100, 1), R(300, 1), R(100, 1), R(300, 1)>>
  /\ ret.volumeZScore = R(8, 1) /\ ret.isSpike

\* C18: without an end date, deadlineDelayModel returns modelProb equal to
\* the marketProb supplied (a probability), delayRisk = 0 and
\* confidence = 0.3, whatever the liquidity and the category.
C18_NoDeadline ==
  Returned("deadlineDelayModel") /\ args.endDate = NULL /\ InUnit(args.marketProb) =>
    /\ ret.modelProb = args.marketProb
    /\ ret.delayRisk = Zero
    /\ ret.confidence = R(3, 10)

\* an undated market whose liquidity and category are both penalised when
\* there is an end date
C18_Witness ==
  /\ Returned("deadlineDelayModel") /\ args.endDate = NULL
  /\ RGt(LiquidityPenalty(args.liquidity)[1], Zero)
  /\ RGt(CategoryPenalty(args.category)[1], Zero)
  /\ RGt(args.marketProb, Zero) /\ RLt(args.marketProb, One)
  /\ ret.modelProb = args.marketProb /\ ret.delayRisk = Zero

\* C19: with an end date, the delay penalty is one time term (0.25 under 7
\* days, 0.18 under 30, 0.10 under 90, 0.04 under 180, else 0.02) plus one
\* liquidity term (0.08 under 5000 or absent, 0.04 under 20000, else 0) plus
\* the term of the first category bucket that matches, in the order
\* crypto/protocol 0.05, regulation/legal 0.08, politics 0.03, or nothing;
\* so it lies in [0.02, 0.41].  At marketProb 1 the penalty is 1 - modelProb.
TimeTerm ==
  LET hours == IF RGt(args.endDate, clock) THEN RSub(args.endDate, clock) ELSE Zero
      under(d) == RLt(hours, R(d * HoursPerDay, 1))
  IN  IF under(7) THEN R(25, 100) ELSE IF under(30) THEN R(18, 100)
      ELSE IF under(90) THEN R(10, 100) ELSE IF under(180) THEN R(4, 100)
      ELSE R(2, 100)

LiquidityTerm ==
  IF args.liquidity = NULL \/ RLt(args.liquidity, R(5000, 1)) THEN R(8, 100)
  ELSE IF RLt(args.liquidity, R(20000, 1)) THEN R(4, 100)
  ELSE Zero

CategoryBuckets ==
  <<[words |-> {Chars("crypto"), Chars("protocol")}, term |-> R(5, 100)],
    [words |-> {Chars("regulation"), Chars("legal")}, term |-> R(8, 100)],
    [words |-> {Chars("politics")}, term |-> R(3, 100)]>>

MatchedBuckets ==
  IF args.category = NULL THEN {}
  ELSE {i \in 1..3 : \E w \in CategoryBuckets[i].words :
                        Includes(ToLowerCase(args.category.text), w)}

CategoryTerm ==
  IF MatchedBuckets = {} THEN Zero
  ELSE CategoryBuckets[CHOOSE i \in MatchedBuckets : \A j \in MatchedBuckets : i <= j].term

C19_PenaltyTerms ==
  Returned("deadlineDelayModel") /\ args.endDate # NULL /\ args.marketProb = One =>
    LET penalty == RSub(One, ret.modelProb)
    IN  /\ penalty = RAdd(RAdd(TimeTerm, LiquidityTerm), CategoryTerm)
        /\ RGe(penalty, R(2, 100)) /\ RLe(penalty, R(41, 100))
        /\ Len(ret.rationale) = 2 + (IF MatchedBuckets = {} THEN 0 ELSE 1)

\* a category that matches two buckets was given the first one's penalty
C19_Witness ==
  /\ Returned("deadlineDelayModel") /\ args.endDate # NULL /\ args.marketProb = One
  /\ Cardinality(MatchedBuckets) = 2
  /\ 2 \in MatchedBuckets /\ 3 \in MatchedBuckets
  /\ RSub(One, ret.modelProb) = RAdd(RAdd(TimeTerm, LiquidityTerm), R(8, 100))
  /\ Len(ret.rationale) = 3

\* C20: the signals generateSignals returns hold exactly one signal of a
\* type when the type's gate holds and none otherwise, with the direction
\* the rule gives: deadline-overpriced iff isByDate, delayRisk > 0.5 and
\* edge < -0.05 (NO); momentum-entry iff momentum is not neutral,
\* isVolumeSpike and |velocity24h| > 0.08 (YES if bullish, else NO);
\* attention-arbitrage iff attentionScore < 0.3 and |edge| > 0.08
\* (edgeDirection); volume-precursor iff isVolumeSpike and
\* |velocity24h| < 0.03 (WATCH); mean-reversion iff |velocity24h| > 0.15 and
\* volumeZScore > 2.5 (NO if velocity24h > 0, else YES).  The same holds of
\* the signals of a score, read against the score's own fields.
SignalTypes ==
  {"deadline-overpriced", "momentum-entry", "attention-arbitrage", "volume-precursor",
   "mean-reversion"}

SignalGates(a) ==
  [type \in SignalTypes |->
     CASE type = "deadline-overpriced" ->
            [open |-> a.isByDate /\ RGt(a.delayRisk, R(1, 2)) /\ RLt(a.edge, R(-1, 20)),
             direction |-> "NO"]
       [] type = "momentum-entry" ->
            [open |-> /\ a.momentum \in {"bullish", "bearish"}
                      /\ a.isVolumeSpike
                      /\ (RGt(a.velocity24h, R(2, 25)) \/ RLt(a.velocity24h, R(-2, 25))),
             direction |-> IF a.momentum = "bullish" THEN "YES" ELSE "NO"]
       [] type = "attention-arbitrage" ->
            [open |-> /\ RLt(a.attentionScore, R(3, 10))
                      /\ (RGt(a.edge, R(2, 25)) \/ RLt(a.edge, R(-2, 25))),
             direction |-> a.edgeDirection]
       [] type = "volume-precursor" ->
            [open |-> /\ a.isVolumeSpike
                      /\ RLt(a.velocity24h, R(3, 100)) /\ RGt(a.velocity24h, R(-3, 100)),
             direction |-> "WATCH"]
       [] type = "mean-reversion" ->
            [open |-> /\ (RGt(a.velocity24h, R(3, 20)) \/ RLt(a.velocity24h, R(-3, 20)))
                      /\ RGt(a.volumeZScore, R(5, 2)),
             direction |-> IF RGt(a.velocity24h, Zero) THEN "NO" ELSE "YES"]]

OneSignalPerOpenGate(signals, a) ==
  \A type \in SignalTypes :
    LET gate == SignalGates(a)[type]
        ofType == {i \in 1..Len(signals) : signals[i].type = type}
    IN  /\ Cardinality(ofType) = IF gate.open THEN 1 ELSE 0
        /\ \A i \in ofType : signals[i].direction = gate.direction

C20_SignalGates ==
  /\ Returned("generateSignals") =>
        /\ \A i \in 1..Len(ret) : ret[i].type \in SignalTypes
        /\ OneSignalPerOpenGate(ret, args)
  /\ Scored =>
        /\ \A i \in 1..Len(ret.signals) : ret.signals[i].type \in SignalTypes
        /\ OneSignalPerOpenGate(
              ret.signals,
              [isByDate |-> looksLikeByDateMarket(args.title, args.rules, args.description),
               delayRisk |-> ret.delayRisk, edge |-> ret.edge,
               edgeDirection |-> ret.edgeDirection, momentum |-> ret.momentum,
               isVolumeSpike |-> ret.isVolumeSpike, velocity24h |-> ret.priceVelocity24h,
               attentionScore |-> ret.attentionScore, volumeZScore |-> ret.volumeZScore])

\* momentum-entry and mean-reversion were both returned, one for YES and
\* one for NO, with a gate that was shut on its threshold
C20_Witness ==
  /\ Returned("generateSignals")
  /\ args.attentionScore = R(3, 10)
  /\ \E i, j \in 1..Len(ret) :
        /\ ret[i].type = "momentum-entry" /\ ret[i].direction = "YES"
        /\ ret[j].type = "mean-reversion" /\ ret[j].direction = "NO"
  /\ \A i \in 1..Len(ret) : ret[i].type # "attention-arbitrage"

\* C21: generateSignals returns at most four signals: volume-precursor
\* needs |velocity24h| < 0.03, momentum-entry |velocity24h| > 0.08 and
\* mean-reversion |velocity24h| > 0.15, so volume-precursor is never returned
\* together with either of them, and the five types are never all returned
\* by one call.
TypesOf(signals) == {signals[i].type : i \in 1..Len(signals)}

C21_AtMostFour ==
  Returned("generateSignals") =>
    /\ Len(ret) <= 4
    /\ "volume-precursor" \in TypesOf(ret) =>
          "momentum-entry" \notin TypesOf(ret) /\ "mean-reversion" \notin TypesOf(ret)

\* four signals from one call: every type but volume-precursor
C21_Witness ==
  /\ Returned("generateSignals")
  /\ Len(ret) = 4
  /\ TypesOf(ret) = SignalTypes \ {"volume-precursor"}

\* C21 as stated: among the calls there is one that returns all five types.
C21_AllFivePossible ==
  Returned("generateSignals") =>
    \E a \in SignalArgs : TypesOf(generateSignals(SignalCall(a))) = SignalTypes

\* C22: suggestSize returns skip if kelly < 0.02 or the tier is D; otherwise
\* small if liquidity < 5000; otherwise large if kelly >= 0.15 and the tier
\* is S or A; otherwise medium if kelly >= 0.08; otherwise small.  So large
\* comes only with kelly >= 0.15, tier S or A and liquidity >= 5000, and
\* tier D is always skip.
SizeBy(kelly, tier, liquidity) ==
  CASE RLt(kelly, R(1, 50)) \/ tier = "D" -> "skip"
    [] ~(RLt(kelly, R(1, 50)) \/ tier = "D") /\ RLt(liquidity, R(5000, 1)) -> "small"
    [] OTHER -> IF RGe(kelly, R(3, 20)) /\ tier \in {"S", "A"} THEN "large"
                ELSE IF RGe(kelly, R(2, 25)) THEN "medium"
                ELSE "small"

C22_SizeOrder ==
  Returned("suggestSize") =>
    /\ ret = SizeBy(args.kelly, args.tier, args.liquidity)
    /\ ret = "large" =>
          /\ RGe(args.kelly, R(15, 100)) /\ args.tier \in {"S", "A"}
          /\ RGe(args.liquidity, R(5000, 1))
    /\ args.tier = "D" => ret = "skip"

\* a thin market that kelly and tier alone would have sized large
C22_Witness ==
  /\ Returned("suggestSize")
  /\ RGe(args.kelly, R(15, 100)) /\ args.tier = "S"
  /\ RLt(args.liquidity, R(5000, 1))
  /\ ret = "small"

\* C23: detectMomentum is bullish under the volume-confirmed rising
\* condition, otherwise bearish under the mirrored one, otherwise bullish or
\* bearish on velocity24h beyond 0.05 alone, else neutral; and it is never
\* bullish when velocity24h <= 0.03 nor bearish when velocity24h >= -0.03.
StrongMomentum(a, sign) ==
  /\ RGt(RMul(R(sign, 1), a.velocity1h), R(1, 50))
  /\ RGt(RMul(R(sign, 1), a.velocity24h), R(3, 100))
  /\ RGt(a.volumeZScore, One)

WeakMomentum(a, sign) == RGt(RMul(R(sign, 1), a.velocity24h), R(1, 20))

C23_MomentumRegimes ==
  Returned("detectMomentum") =>
    /\ ret = "bullish" <=> (StrongMomentum(args, 1) \/ WeakMomentum(args, 1))
    /\ ret = "bearish" <=> (StrongMomentum(args, -1) \/ WeakMomentum(args, -1))
    /\ ret \in {"bullish", "bearish", "neutral"}
    /\ RLe(args.velocity24h, R(3, 100)) => ret # "bullish"
    /\ RGe(args.velocity24h, R(-3, 100)) => ret # "bearish"

\* the strong regime decides where the weak one alone says neutral
C23_Witness ==
  /\ Returned("detectMomentum")
  /\ ret = "bearish"
  /\ StrongMomentum(args, -1) /\ ~WeakMomentum(args, -1)

\* C24: the volatility of a score is the population standard deviation of
\* the non-zero yes-prices found among the 20 newest snapshots.  An absent or
\* zero price among those 20 leaves the window shorter: no price of an older
\* snapshot takes its place.
NonZeroPrices(snapshots) ==
  SelectSeq([i \in 1..Len(snapshots) |-> OrElse(snapshots[i].yesPrice, Zero)],
            LAMBDA p : p.n > 0)

Newest(s, k) == SubSeq(s, 1, IF Len(s) < k THEN Len(s) ELSE k)

StdDev(prices) ==
  IF Len(prices) > 1
    THEN RSqrt(RSub(MeanOfSquares(prices), RMul(Mean(prices), Mean(prices))))
    ELSE Zero

C24_VolatilityWindow ==
  Scored =>
    /\ ret.volatility = StdDev(NonZeroPrices(Newest(args.snapshots, 20)))
    /\ RGe(ret.volatility, Zero)

\* more than 20 snapshots, a gap among the 20 newest, and non-zero prices
\* beyond them that would have changed the result
C24_Witness ==
  /\ Scored
  /\ Len(args.snapshots) > 20
  /\ \E i \in 1..20 : args.snapshots[i].yesPrice \in {NULL, Zero}
  /\ Len(NonZeroPrices(Newest(args.snapshots, 20))) < 20
  /\ Len(NonZeroPrices(args.snapshots)) > Len(NonZeroPrices(Newest(args.snapshots, 20)))
  /\ ret.volatility # StdDev(Newest(NonZeroPrices(args.snapshots), 20))

\* C24 as first stated: the window holds the 20 most recent non-zero prices
C24_TwentyNonZero ==
  Scored => ret.volatility = StdDev(Newest(NonZeroPrices(args.snapshots), 20))

\* C25: in every score modelProb <= currentYesPrice, so edge <= 0; edge = 0
\* with edgeDirection YES exactly when the market has no end date, and with
\* an end date, a past one included, edge < 0 with edgeDirection NO.
C25_EdgeNeverPositive ==
  Scored =>
    /\ RLe(ret.modelProb, ret.currentYesPrice)
    /\ ret.edge = RSub(ret.modelProb, ret.currentYesPrice)
    /\ RLe(ret.edge, Zero)
    /\ (args.endDate = NULL) <=> (ret.edge = Zero /\ ret.edgeDirection = "YES")
    /\ (args.endDate # NULL) <=> (RLt(ret.edge, Zero) /\ ret.edgeDirection = "NO")

\* a market whose end date has passed is still marked down
C25_Witness ==
  /\ Scored
  /\ args.endDate # NULL /\ RLt(args.endDate, clock)
  /\ RLt(ret.edge, Zero) /\ ret.edgeDirection = "NO"

\* C26: in a score, a mean-reversion signal never comes without a
\* momentum-entry signal of the opposite direction: momentum-entry YES with
\* mean-reversion NO when velocity24h > 0, and the reverse when it is < 0.
DirectionOf(signals, type) ==
  {signals[i].direction : i \in {j \in 1..Len(signals) : signals[j].type = type}}

C26_ReversionContradictsMomentum ==
  Scored /\ "mean-reversion" \in TypesOf(ret.signals) =>
    /\ "momentum-entry" \in TypesOf(ret.signals)
    /\ ret.priceVelocity24h # Zero
    /\ DirectionOf(ret.signals, "momentum-entry") =
          {IF RGt(ret.priceVelocity24h, Zero) THEN "YES" ELSE "NO"}
    /\ DirectionOf(ret.signals, "mean-reversion") =
          {IF RGt(ret.priceVelocity24h, Zero) THEN "NO" ELSE "YES"}

\* a falling market: momentum-entry NO against mean-reversion YES
C26_Witness ==
  /\ Scored
  /\ RLt(ret.priceVelocity24h, Zero)
  /\ DirectionOf(ret.signals, "mean-reversion") = {"YES"}
  /\ DirectionOf(ret.signals, "momentum-entry") = {"NO"}

\* C27: within one score the days value the delay model used and the one
\* reported agree, although the clock is read once for each: urgency is
\* critical exactly when the time penalty 0.25 was applied, urgent exactly
\* when 0.18, moderate exactly when 0.10, distant exactly when 0.04 or 0.02.
\* The time penalty applied is what is left of currentYesPrice - modelProb
\* after the liquidity and the category terms, where modelProb is above 0.
ScoreTimePenalty ==
  LET liquidity == Latest.liquidity
      liquidityTerm == IF liquidity = NULL \/ RLt(liquidity, R(5000, 1)) THEN R(8, 100)
                       ELSE IF RLt(liquidity, R(20000, 1)) THEN R(4, 100)
                       ELSE Zero
  IN  RSub(RSub(RSub(ret.currentYesPrice, ret.modelProb), liquidityTerm), CategoryTerm)

C27_UrgencyMatchesPenalty ==
  Scored /\ args.endDate # NULL /\ RGt(ret.modelProb, Zero) =>
    /\ (ret.urgency = "critical") <=> (ScoreTimePenalty = R(25, 100))
    /\ (ret.urgency = "urgent") <=> (ScoreTimePenalty = R(18, 100))
    /\ (ret.urgency = "moderate") <=> (ScoreTimePenalty = R(10, 100))
    /\ (ret.urgency = "distant") <=> (ScoreTimePenalty \in {R(4, 100), R(2, 100)})

C29_FloorWithoutVolumeDrop ==
  Scored =>
    /\ RGe(ret.volumeZScore, Zero) /\ RGe(OrElse(Latest.liquidity, Zero), Zero) =>
          RGe(ret.compositeScore, R(45, 1)) /\ ret.tier # "D"
    /\ ret.tier = "D" => RLt(ret.volumeZScore, Zero)
    /\ PositiveCount([i \in 1..(Len(args.snapshots) - 1) |->
                        OrElse(args.snapshots[i + 1].volume24h, Zero)]) < 3 =>
          ret.volumeZScore = Zero

\* the floor itself: nothing but the low-attention penalty applies
C29_Witness ==
  /\ Scored
  /\ ret.volumeZScore = Zero
  /\ ret.compositeScore = R(45, 1)
  /\ ret.tier = "C"

\* C30: the volume baseline of a score is made of snapshots 2 through 20,
\* never of the latest one.  With fewer than 3 positive volumes among them
\* (as with fewer than 4 snapshots) volumeZScore = 0, isVolumeSpike is false
\* and no momentum-entry, volume-precursor or mean-reversion signal is
\* given, whatever the current volume and the price changes.
VolumeBaseline(snapshots) ==
  LET last == IF Len(snapshots) < 20 THEN Len(snapshots) ELSE 20
  IN  SelectSeq([i \in 1..(last - 1) |-> OrElse(snapshots[i + 1].volume24h, Zero)],
                LAMBDA v : v.n > 0)

BaselineZ(current, h) ==
  IF Len(h) < 3 THEN Zero
  ELSE LET sd == RSqrt(RSub(MeanOfSquares(h), RMul(Mean(h), Mean(h))))
       IN  IF sd = Zero THEN Zero ELSE RDiv(RSub(current, Mean(h)), sd)

VolumeSignals == {"momentum-entry", "volume-precursor", "mean-reversion"}

C30_BaselineExcludesLatest ==
  Scored =>
    LET h == VolumeBaseline(args.snapshots)
    IN  /\ ret.volumeZScore = BaselineZ(OrElse(Latest.volume24h, Zero), h)
        /\ ret.isVolumeSpike <=> RGt(ret.volumeZScore, R(2, 1))
        /\ Len(args.snapshots) < 4 => Len(h) < 3
        /\ Len(h) < 3 =>
              /\ ret.volumeZScore = Zero /\ ~ret.isVolumeSpike
              /\ TypesOf(ret.signals) \cap VolumeSignals = {}

\* four older snapshots of which two have a volume, a large current volume
\* and a large move of the price
C30_Witness ==
  /\ Scored
  /\ Len(args.snapshots) >= 4 /\ Len(VolumeBaseline(args.snapshots)) = 2
  /\ Latest.volume24h # NULL /\ RGt(Latest.volume24h, Zero)
  /\ RGt(RAbs(ret.priceVelocity24h), R(15, 100))
  /\ ret.volumeZScore = Zero /\ ~ret.isVolumeSpike
  /\ TypesOf(ret.signals) \cap VolumeSignals = {}

=============================================================================
